---- MODULE Spec2Model ----
(***************************************************************************)
(* Market-data ingestion engine: tracked-pair state tracker, backfill      *)
(* plan, candle fetch/merge pipeline, tick engine and config publisher.    *)
(* Each subsystem has its own specification over its own variables; the    *)
(* variables of the other subsystems stay at their idle values.            *)
(***************************************************************************)
EXTENDS Integers, Sequences, FiniteSets, TLC

VARIABLES
    \* ---- getNewTrackedPairs (database_pairs_tracker.cpp)
    trPrev,        \* previous TrackedData: [date, trackedPairs]
    trTop,         \* today's top-N set
    trDate,        \* target date (sys_days count)
    trResult,      \* returned TrackedData
    trDone,        \* the function has returned
    \* ---- computeDaysSinceLastStoredOHLCV (database_db_helper.cpp)
    plLastDay,     \* per pair: day number of its last stored candle, or NoDay
    plTracked,     \* tracked.trackedPairs (pair -> counter)
    plDate,        \* currentDate (sys_days count)
    plResult,      \* returned map pair -> days
    plDone,        \* the function has returned
    \* ---- fetchDataOHLCV (database_binance_fetcher.cpp)
    ftN,           \* pairs.size(): number of pairs of dataToDownload
    ftDate,        \* targetDate (sys_days count)
    ftResp,        \* per pair index: what the exchange answers to its request
    ftI,           \* i: index of the first pair of the current batch
    ftJ,           \* j: index of the next pair to spawn a worker for
    ftMain,        \* position of the calling thread: spawn, join, done
    ftW,           \* per pair index: position of its worker thread
    ftLocal,       \* per pair index: the worker's local.data[pair]
    ftResult,      \* result.data (pair index -> date -> candle)
    ftLock,        \* holder of writeMutex (0: free)
    ftAlive,       \* FALSE once std::terminate has ended the process
    \* ---- downloadData, one call per midnight tick (database_downloader.cpp)
    dbTracked,     \* table tracked_pairs: NoRow or its single row
    dbOhlcv,       \* table ohlcv_data: <<pair, date>> -> candle
    dbStart,       \* table date_of_start: sequence of its rows
    cyPc,          \* position in downloadData ("wait": between two calls)
    cyCount,       \* number of calls started so far
    cyDate,        \* date: the target date of the call
    cyPrev,        \* prev
    cyTracked,     \* updated_tracked_data
    cyPlan,        \* dataToDownload
    cyResp,        \* what the exchange answered to each planned pair
    cyData,        \* data_ohlcv
    cyRet,         \* how the last call ended: none, true, false, exception
    cyWritten,     \* keys of the ohlcv_data rows written by the current call
    cyAlive,       \* FALSE once std::terminate has ended the process
    cyTop50,       \* top50 of the call: asked (requested), thrown, pairs
    cyTrace,       \* the steps of downloadData the call has run, in order
    cyBefore,      \* tracked_pairs and ohlcv_data as they were when the call began
    \* ---- Scheduler<TContext> (scheduler.h)
    scMode,        \* "async": startAsync() was used; "blocking": start() on the caller's thread
    running,       \* std::atomic<bool> running
    globalStop,    \* static std::atomic<bool> globalStop
    lpPc,          \* position of the thread that executes start()
    lpNotified,    \* the blocked wait has been notified and not yet resumed
    lpWake,        \* why the last between-tick wait ended: none, pred, notified, deadline
    lpTimeouts,    \* calls of onTimeout() in the current iteration
    tkState,       \* the std::async invocation of processSecond: none, running, done
    tkThrew,       \* the invocation ended by an exception (held by the future)
    tkPast,        \* an invocation of an earlier iteration ended by an exception
    saPc,          \* position in startAsync()
    stPc,          \* position of the thread that calls stop()
    \* ---- ConfigHandler<TConfig> (config_handler.h) and its consumer
    cfFile,        \* content of the configuration file (0: does not validate)
    cfMtime,       \* last write time of the file
    lastLoadedTime,
    currentConfig,
    nextConfig,    \* the pending slot: NoConfig or a published snapshot
    mtx,           \* holder of std::mutex mtx: free, con
    pbPc,          \* position of the publisher in processSecond()
    pbSctp,        \* the publisher's local sctp
    pbCandidate,   \* the publisher's local candidate
    csPc,          \* position of the consumer in consumeNextConfig()
    csOut,         \* the consumer's out parameter
    ctxConfig,     \* ctxRef.config of the orchestrator
    cfPublished,   \* number of publications so far
    cfTaken,       \* number of the publication handed out last
    cfHanded,      \* number of consumes that returned true
    cfRejectedAt,  \* cfPublished when a candidate was last discarded, or -1
    \* ---- storeDataOHLCV on the table ohlcv_data (database_db_helper.cpp)
    soRows,        \* the rows of ohlcv_data: a set of <<pair, date, candle>>
    soBefore,      \* the rows before the last call
    soData,        \* data.data of the last call
    soN,           \* rows of the last call that sqlite3_step accepted
    soCalls,       \* number of calls so far
    soKeys,        \* every <<pair, date>> stored by some call
    soLast,        \* <<pair, date>> -> candle of the most recent store of that key
    \* ---- pruneFutureCandles (database_downloader.cpp)
    prData,        \* data.data as handed in
    prCutoff,      \* cutoffDate (sys_days count)
    prResult,      \* data.data after the call
    prPc,          \* call: not yet called; once, twice: number of applications
    \* ---- openDatabaseOHLCV on the table date_of_start (database_db_helper.cpp)
    opRows,        \* the ids of the rows of date_of_start (id is the primary key)
    opDate,        \* yymmdd of the last call
    opOutcome,     \* how the last call went (see OpenOutcomes)
    opCalls,       \* number of calls so far
    opFirst,       \* yymmdd of the first call that inserted a row, or NoDay
    \* ---- storeTrackedPairs and getTrackedPairs on the table tracked_pairs
    tsRows,        \* the rows of tracked_pairs
    tsData,        \* data of the last storeTrackedPairs
    tsOutcome,     \* how the last storeTrackedPairs went (see TrackedOutcomes)
    tsLoaded,      \* what getTrackedPairs returned since the last write, or Absent
    tsCalls,       \* number of writes so far
    \* ---- getTop50PairsByVolume (database_binance_fetcher.cpp)
    tpResp,        \* what the ticker request meets: a failure or a response body
    tpResult,      \* the returned set of symbols
    tpThrown,      \* the call ended by an exception
    tpDone,        \* the call has ended
    \* ---- DatabaseScheduler (signalizer_scheduler.cpp) under Scheduler::start
    dsClock,       \* std::chrono::system_clock::now(), in units of 1/DayLen day
    nextMidnightUTC,
    firtsIteration,
    dsInv,         \* position of each invocation of processSecond, by launch number
    dsLaunched,    \* invocations launched so far
    dsLog,         \* the downloadData calls so far: start, trigger read, end, invocation
    database_path, \* databaseDownloader_.database_path_
    ctxDatabasePath, \* ctx->config.GetDatabasePath()
    \* ---- main (signalizer_main.cpp): databaseScheduler->start() on the main thread;
    \*      configHandler is the scheduler of the variables scMode .. stPc above
    msPc,          \* position of the main thread inside databaseScheduler->start()
    msRunning,     \* databaseScheduler's running
    msGlobalStop,  \* Scheduler<DatabaseContext>::globalStop, the flag signalHandler sets
    msTask         \* databaseScheduler's invocation of processSecond: none, running, done

trackerVars == <<trPrev, trTop, trDate, trResult, trDone>>
planVars    == <<plLastDay, plTracked, plDate, plResult, plDone>>
fetchVars   == <<ftN, ftDate, ftResp, ftI, ftJ, ftMain, ftW, ftLocal, ftResult, ftLock, ftAlive>>
dbVars      == <<dbTracked, dbOhlcv, dbStart>>
cycleVars   == <<dbVars, cyPc, cyCount, cyDate, cyPrev, cyTracked, cyPlan, cyResp, cyData,
                 cyRet, cyWritten, cyAlive, cyTop50, cyTrace, cyBefore>>
schedVars   == <<scMode, running, globalStop, lpPc, lpNotified, lpWake, lpTimeouts, tkState,
                 tkThrew, saPc, stPc, tkPast>>
configVars  == <<cfFile, cfMtime, lastLoadedTime, currentConfig, nextConfig, mtx, pbPc, pbSctp,
                 pbCandidate, csPc, csOut, ctxConfig, cfPublished, cfTaken, cfHanded, cfRejectedAt>>
storeVars   == <<soRows, soBefore, soData, soN, soCalls, soKeys, soLast>>
pruneVars   == <<prData, prCutoff, prResult, prPc>>
openVars    == <<opRows, opDate, opOutcome, opCalls, opFirst>>
trackedVars == <<tsRows, tsData, tsOutcome, tsLoaded, tsCalls>>
top50Vars   == <<tpResp, tpResult, tpThrown, tpDone>>
orchVars    == <<dsClock, nextMidnightUTC, firtsIteration, dsInv, dsLaunched, dsLog,
                 database_path, ctxDatabasePath>>
mainVars    == <<msPc, msRunning, msGlobalStop, msTask>>
vars        == <<trackerVars, planVars, fetchVars, cycleVars, schedVars, configVars, storeVars, pruneVars, openVars, trackedVars, top50Vars, orchVars, mainVars>>

(***************************************************************************)
(* Bounds of the model                                                     *)
(***************************************************************************)
MaxCounter == 3     \* largest days-outside-top-N counter of a previous state
MaxDayGap  == 3     \* previous asOfDate lies at most this many days before the target
MaxGap     == 102   \* last stored candle lies at most this many days before the target
MaxPlanned == 9     \* largest number of pairs in a backfill plan handed to the fetch
MaxCycles  == 2     \* number of downloadData calls followed
MaxDayStep == 1     \* days the target date moves on between two calls
MaxTicks   == 3     \* invocations of DatabaseScheduler::processSecond followed
MaxClock   == 5     \* the clock is followed up to this reading

Pairs     == {"BTCUSDT", "ETHUSDT", "DOGEUSDT"}
PlanPairs == {"BTCUSDT", "ETHUSDT"}

NoDay  == -1
Absent == [date |-> NoDay, trackedPairs |-> <<>>]
EmptyMap == [p \in {} |-> 0]

(***************************************************************************)
(* std::chrono calendar: sys_days <-> year_month_day                       *)
(***************************************************************************)
\* sys_days(year/month/day): days since 1970-01-01
DaysFromCivil(y0, m, d) ==
    LET y   == IF m <= 2 THEN y0 - 1 ELSE y0
        era == y \div 400
        yoe == y - era * 400
        mp  == IF m > 2 THEN m - 3 ELSE m + 9
        doy == (153 * mp + 2) \div 5 + d - 1
        doe == yoe * 365 + yoe \div 4 - yoe \div 100 + doy
    IN  era * 146097 + doe - 719468

\* year_month_day(sys_days)
CivilFromDays(z0) ==
    LET z   == z0 + 719468
        era == z \div 146097
        doe == z - era * 146097
        yoe == (doe - doe \div 1460 + doe \div 36524 - doe \div 146096) \div 365
        y   == yoe + era * 400
        doy == doe - (365 * yoe + yoe \div 4 - yoe \div 100)
        mp  == (5 * doy + 2) \div 153
        d   == doy - (153 * mp + 2) \div 5 + 1
        m   == IF mp < 10 THEN mp + 3 ELSE mp - 9
    IN  [year |-> IF m <= 2 THEN y + 1 ELSE y, month |-> m, day |-> d]

\* int toYYYYMMDD(year_month_day): y * 10000 + m * 100 + d
toYYYYMMDD(days) ==
    LET c == CivilFromDays(days)
    IN  c.year * 10000 + c.month * 100 + c.day

\* the placeholder date of "no stored tracked_pairs"
EMPTY_DATE == DaysFromCivil(2000, 1, 1)

\* the target dates the cycles run for: one just after a year boundary, one
\* just after a leap February
TargetDates == {DaysFromCivil(2024, 1, 18), DaysFromCivil(2024, 3, 1)}

Max2(a, b) == IF a > b THEN a ELSE b

(***************************************************************************)
(* Tracked-pair state tracker                                              *)
(***************************************************************************)
\* seeded fault: the carry-forward loop without its top50.contains() test
getNewTrackedPairs_NoContainsTest(prev, top50, prev_exists, date) ==
    IF ~prev_exists
    THEN [date |-> date, trackedPairs |-> [p \in top50 |-> 0]]
    ELSE LET d0   == date - prev.date
             diff == IF d0 < 1 THEN 1 ELSE d0
         IN  [date |-> date,
              trackedPairs |->
                 [p \in top50 \cup DOMAIN prev.trackedPairs |->
                    IF p \in DOMAIN prev.trackedPairs
                    THEN prev.trackedPairs[p] + diff ELSE 0]]

\* seeded fault: the day difference without its floor of 1
getNewTrackedPairs_NoFloor(prev, top50, prev_exists, date) ==
    IF ~prev_exists
    THEN [date |-> date, trackedPairs |-> [p \in top50 |-> 0]]
    ELSE LET diff == date - prev.date
         IN  [date |-> date,
              trackedPairs |->
                 [p \in top50 \cup DOMAIN prev.trackedPairs |->
                    IF p \in top50 THEN 0 ELSE prev.trackedPairs[p] + diff]]

\* seeded fault: the pairs of the previous state are not carried over
getNewTrackedPairs_DropsStale(prev, top50, prev_exists, date) ==
    [date |-> date, trackedPairs |-> [p \in top50 |-> 0]]

\* DatabaseDownloader::getNewTrackedPairs
getNewTrackedPairs(prev, top50, prev_exists, date) ==
    IF ~prev_exists
    THEN [date |-> date, trackedPairs |-> [p \in top50 |-> 0]]
    ELSE LET d0   == date - prev.date
             diff == IF d0 < 1 THEN 1 ELSE d0
         IN  [date |-> date,
              trackedPairs |->
                 [p \in top50 \cup DOMAIN prev.trackedPairs |->
                    IF p \in top50 THEN 0 ELSE prev.trackedPairs[p] + diff]]

\* downloadData: prev_exists = prev.date != EMPTY_DATE && !prev.trackedPairs.empty()
PrevExists(prev) == prev.date # EMPTY_DATE /\ DOMAIN prev.trackedPairs # {}

\* what getTrackedPairs returns when tracked_pairs has no row
NoPrevious == [date |-> EMPTY_DATE, trackedPairs |-> EmptyMap]

\* the previous states a store can hold for a cycle with target date t: none,
\* or one written by an earlier cycle (never without pairs)
PreviousStates(t) ==
    {NoPrevious} \cup
    {[date |-> t - k, trackedPairs |-> m] :
        k \in (-1)..MaxDayGap,
        m \in UNION {[S -> 0..MaxCounter] : S \in (SUBSET Pairs) \ {{}}}}

TrackerIdle ==
    /\ trPrev = NoPrevious /\ trTop = {} /\ trDate = NoDay
    /\ trResult = Absent /\ trDone = FALSE

TrackerInit ==
    /\ trDate \in TargetDates
    /\ trPrev \in PreviousStates(trDate)
    /\ trTop \in (SUBSET Pairs) \ {{}}
    /\ trResult = Absent
    /\ trDone = FALSE

CallGetNewTrackedPairs ==
    /\ ~trDone
    /\ trResult' = getNewTrackedPairs(trPrev, trTop, PrevExists(trPrev), trDate)
    /\ trDone' = TRUE
    /\ UNCHANGED <<trPrev, trTop, trDate>>

(***************************************************************************)
(* Backfill plan                                                           *)
(***************************************************************************)
\* SELECT MAX(date) FROM ohlcv_data WHERE pair = ?  (0 when the pair has no row)
MaxStoredDate(keys, pair) ==
    LET ds == {k[2] : k \in {x \in keys : x[1] = pair}}
    IN  IF ds = {} THEN 0 ELSE CHOOSE d \in ds : \A e \in ds : e <= d

\* seeded fault: the difference without its cap of 100
computeDaysSinceLastStoredOHLCV_NoCap(keys, tracked, currentDate) ==
    LET currentYMD == toYYYYMMDD(currentDate)
        planned == {p \in DOMAIN tracked :
                      MaxStoredDate(keys, p) = 0 \/ MaxStoredDate(keys, p) < currentYMD}
    IN  [p \in planned |->
            IF MaxStoredDate(keys, p) = 0 THEN 100
            ELSE currentYMD - MaxStoredDate(keys, p)]

\* seeded fault: a pair that has left the top-N (counter above 0) is not planned
computeDaysSinceLastStoredOHLCV_SkipsOutside(keys, tracked, currentDate) ==
    LET currentYMD == toYYYYMMDD(currentDate)
        planned == {p \in DOMAIN tracked :
                      /\ tracked[p] = 0
                      /\ MaxStoredDate(keys, p) = 0 \/ MaxStoredDate(keys, p) < currentYMD}
    IN  [p \in planned |->
            LET lastYMD == MaxStoredDate(keys, p)
                diff    == currentYMD - lastYMD
            IN  IF lastYMD = 0 THEN 100
                ELSE IF diff > 100 THEN 100 ELSE diff]

\* DatabaseDownloader::computeDaysSinceLastStoredOHLCV
computeDaysSinceLastStoredOHLCV(keys, tracked, currentDate) ==
    LET currentYMD == toYYYYMMDD(currentDate)
        planned == {p \in DOMAIN tracked :
                      MaxStoredDate(keys, p) = 0 \/ MaxStoredDate(keys, p) < currentYMD}
    IN  [p \in planned |->
            LET lastYMD == MaxStoredDate(keys, p)
                diff    == currentYMD - lastYMD
            IN  IF lastYMD = 0 THEN 100
                ELSE IF diff > 100 THEN 100 ELSE diff]

\* the days-outside-top-N counters of the tracked state handed to the plan
PlanCounters == {0, MaxCounter}

\* the (pair, date) keys of ohlcv_data when each pair's last candle is at plLastDay
PlanKeys(last) == {<<p, toYYYYMMDD(last[p])>> : p \in {q \in DOMAIN last : last[q] # NoDay}}

PlanIdle ==
    /\ plLastDay = [p \in PlanPairs |-> NoDay] /\ plTracked = EmptyMap
    /\ plDate = NoDay /\ plResult = EmptyMap /\ plDone = FALSE

PlanInit ==
    /\ plDate \in TargetDates
    /\ plLastDay \in [PlanPairs -> {NoDay} \cup {plDate - k : k \in (-1)..MaxGap}]
    /\ plTracked \in UNION {[S -> PlanCounters] : S \in SUBSET PlanPairs}
    /\ plResult = EmptyMap
    /\ plDone = FALSE

CallComputeDays ==
    /\ ~plDone
    /\ plResult' = computeDaysSinceLastStoredOHLCV(PlanKeys(plLastDay), plTracked, plDate)
    /\ plDone' = TRUE
    /\ UNCHANGED <<plLastDay, plTracked, plDate>>

(***************************************************************************)
(* Candle fetch/merge pipeline                                             *)
(***************************************************************************)
MAX_THREADS == 8

\* the worker's window: daysNeeded = std::clamp(daysNeeded, 1, 100);
\* startSys = endSys - days(daysNeeded - 1), endSys = sys_days(targetDate)
startSys(targetDate, daysNeeded) ==
    LET clamped == IF daysNeeded < 1 THEN 1 ELSE IF daysNeeded > 100 THEN 100 ELSE daysNeeded
    IN  targetDate - (clamped - 1)

\* the offsets from UTC, in hours, of the time zones a host may be set to
UtcOffsets == {-5, 0, 2}

\* toUnixMillis(yyyymmdd): y, m, d are cut out of the number and handed to
\* std::mktime, which reads them as midnight of the host's local time. The
\* unit here is the hour, not the millisecond.
toUnixMillis(yyyymmdd, utcOffset) ==
    LET y == yyyymmdd \div 10000
        m == (yyyymmdd \div 100) % 100
        d == yyyymmdd % 100
    IN  DaysFromCivil(y, m, d) * 24 - utcOffset

\* startTime of the klines request: startMs = toUnixMillis(startYmd) with
\* startYmd = toYYYYMMDD(year_month_day(startSys))
startMs(targetDate, daysNeeded, utcOffset) ==
    toUnixMillis(toYYYYMMDD(startSys(targetDate, daysNeeded)), utcOffset)

\* the UTC day of the first daily candle that opens at or after startTime
\* (daily candles open at 00:00 UTC)
FirstDayFrom(startTime) == (startTime + 23) \div 24

\* One element of a klines response. timeOk: element [0] converts to long;
\* day: the UTC day of openTime; fieldsOk: elements [1]..[5] are numeric
\* strings; val: the candle they give.
Elem(timeOk, day, fieldsOk, val) ==
    [timeOk |-> timeOk, day |-> day, fieldsOk |-> fieldsOk, val |-> val]

TransportFailure == [kind |-> "transport", elems |-> <<>>]
Unparsable       == [kind |-> "unparsable", elems |-> <<>>]
Body(elems)      == [kind |-> "body", elems |-> elems]

\* the loop "for (auto& arr : j)" of the worker: thrown is TRUE when get<long>,
\* get<std::string> or std::stod throws; data is local.data[pair]
RECURSIVE ParseElems(_, _, _)
ParseElems(elems, targetYmd, acc) ==
    IF elems = <<>> THEN [thrown |-> FALSE, data |-> acc]
    ELSE LET e == Head(elems)
         IN  IF ~e.timeOk THEN [thrown |-> TRUE, data |-> acc]
             ELSE LET ymd == toYYYYMMDD(e.day)
                  IN  IF ymd > targetYmd
                      THEN ParseElems(Tail(elems), targetYmd, acc)
                      ELSE IF ~e.fieldsOk THEN [thrown |-> TRUE, data |-> acc]
                      ELSE ParseElems(Tail(elems), targetYmd,
                              [d \in DOMAIN acc \cup {ymd} |->
                                  IF d = ymd THEN e.val ELSE acc[d]])

\* seeded fault: result.data = local.data in place of the merge
MergeLocal_Assign(result, j, local) ==
    IF local = EmptyMap THEN result ELSE [k \in {j} |-> local]

\* std::map::merge(local.data): a key already present in result is left alone;
\* local.data holds the pair only if at least one candle was parsed
MergeLocal(result, j, local) ==
    IF local = EmptyMap \/ j \in DOMAIN result THEN result
    ELSE [k \in DOMAIN result \cup {j} |-> IF k = j THEN local ELSE result[k]]

\* seeded fault: no batching, every remaining pair gets its worker at once
BatchEnd_NoBatching(i, n) == n + 1

BatchEnd(i, n) == IF i + MAX_THREADS < n + 1 THEN i + MAX_THREADS ELSE n + 1

\* the answer of a healthy exchange to pair j: the target day's candle and the
\* candle of the day after it
GoodBody(j, t) == Body(<<Elem(TRUE, t, TRUE, j), Elem(TRUE, t + 1, TRUE, j)>>)

\* the answers that make a worker fail
BadResponses(t) ==
    { TransportFailure, Unparsable,
      Body(<<Elem(FALSE, t, TRUE, 0)>>),
      Body(<<Elem(TRUE, t, TRUE, 0), Elem(TRUE, t, FALSE, 0)>>) }

FetchIdle ==
    /\ ftN = 0 /\ ftDate = NoDay /\ ftResp = <<>> /\ ftI = 1 /\ ftJ = 1
    /\ ftMain = "idle" /\ ftW = <<>> /\ ftLocal = <<>> /\ ftResult = EmptyMap
    /\ ftLock = 0 /\ ftAlive = TRUE

NoResponse == [kind |-> "none", elems |-> <<>>]

\* the date the fetch runs for
FetchDate == DaysFromCivil(2024, 1, 18)

\* what the exchange may answer to pair j: every pair is answered well except
\* at most one, the first or the last of the plan, whose answer may be bad
Responses(j) ==
    {GoodBody(j, ftDate)} \cup
    (IF j \in {1, ftN} /\ \A k \in 1..ftN : ftResp[k] \in {NoResponse, GoodBody(k, ftDate)}
     THEN BadResponses(ftDate) ELSE {})

\* a plan of 1..MaxPlanned pairs, no worker spawned yet
FetchInit ==
    /\ ftN \in 1..MaxPlanned
    /\ ftDate = FetchDate
    /\ ftResp = [j \in 1..ftN |-> NoResponse]
    /\ ftI = 1 /\ ftJ = 1
    /\ ftMain = "spawn"
    /\ ftW = [j \in 1..ftN |-> "idle"]
    /\ ftLocal = [j \in 1..ftN |-> EmptyMap]
    /\ ftResult = EmptyMap
    /\ ftLock = 0
    /\ ftAlive = TRUE

\* workers.emplace_back(...) for pair j of the batch
FtSpawn ==
    /\ ftAlive /\ ftMain = "spawn"
    /\ ftW' = [ftW EXCEPT ![ftJ] = "started"]
    /\ ftJ' = ftJ + 1
    /\ ftMain' = IF ftJ + 1 = BatchEnd(ftI, ftN) THEN "join" ELSE "spawn"
    /\ UNCHANGED <<ftN, ftDate, ftResp, ftI, ftLocal, ftResult, ftLock, ftAlive>>

\* for (auto& t : workers) t.join(); then the next batch, or return
FtJoin ==
    /\ ftAlive /\ ftMain = "join"
    /\ \A j \in ftI..(BatchEnd(ftI, ftN) - 1) : ftW[j] = "done"
    /\ ftI' = ftI + MAX_THREADS
    /\ ftMain' = IF ftI + MAX_THREADS < ftN + 1 THEN "spawn" ELSE "done"
    /\ UNCHANGED <<ftN, ftDate, ftResp, ftJ, ftW, ftLocal, ftResult, ftLock, ftAlive>>

\* worker j: request, json::parse, element loop. An exception of the element
\* loop leaves the thread function: std::terminate.
FtRequest(j) ==
    /\ ftAlive /\ ftW[j] = "started"
    /\ \E r \in Responses(j) :
        LET parsed == ParseElems(r.elems, toYYYYMMDD(ftDate), EmptyMap)
        IN  /\ ftResp' = [ftResp EXCEPT ![j] = r]
            /\ IF r.kind # "body"
               THEN /\ ftW' = [ftW EXCEPT ![j] = "done"]
                    /\ UNCHANGED <<ftLocal, ftAlive>>
               ELSE IF parsed.thrown
               THEN /\ ftAlive' = FALSE
                    /\ UNCHANGED <<ftW, ftLocal>>
               ELSE /\ ftLocal' = [ftLocal EXCEPT ![j] = parsed.data]
                    /\ ftW' = [ftW EXCEPT ![j] = "parsed"]
                    /\ UNCHANGED ftAlive
    /\ UNCHANGED <<ftN, ftDate, ftI, ftJ, ftMain, ftResult, ftLock>>

\* worker j: std::lock_guard<std::mutex> lock(writeMutex)
FtLock(j) ==
    /\ ftAlive /\ ftW[j] = "parsed" /\ ftLock = 0
    /\ ftLock' = j
    /\ ftW' = [ftW EXCEPT ![j] = "merging"]
    /\ UNCHANGED <<ftN, ftDate, ftResp, ftI, ftJ, ftMain, ftLocal, ftResult, ftAlive>>

\* worker j: result.data.merge(local.data); the guard is released; return
FtMerge(j) ==
    /\ ftAlive /\ ftW[j] = "merging"
    /\ ftResult' = MergeLocal(ftResult, j, ftLocal[j])
    /\ ftLock' = 0
    /\ ftW' = [ftW EXCEPT ![j] = "done"]
    /\ UNCHANGED <<ftN, ftDate, ftResp, ftI, ftJ, ftMain, ftLocal, ftAlive>>

(***************************************************************************)
(* Persistence layer and ingestion orchestrator                            *)
(***************************************************************************)
CyclePairs == {"BTCUSDT", "ETHUSDT"}

\* std::map<std::string, ...> iterates its keys in this order
PairOrder == <<"BTCUSDT", "DOGEUSDT", "ETHUSDT">>
PairIndex(p) == CHOOSE i \in 1..Len(PairOrder) : PairOrder[i] = p

NoRow == [date |-> <<>>, json |-> {}]

\* a text is the sequence of its characters: a digit is its value, '-' is Dash
Dash == 45
Digits(n, width) == [i \in 1..width |-> (n \div (10 ^ (width - i))) % 10]

\* formatYMD: fmt::format("{:%Y-%m-%d}", tm), the text "YYYY-MM-DD"
formatYMD(days) ==
    LET ymd == CivilFromDays(days)
    IN  Digits(ymd.year, 4) \o <<Dash>> \o Digits(ymd.month, 2) \o <<Dash>> \o Digits(ymd.day, 2)

\* std::stoi: the number written by the leading digits of the text
RECURSIVE StoiFrom(_, _, _)
StoiFrom(text, i, acc) ==
    IF i > Len(text) \/ text[i] > 9 THEN acc ELSE StoiFrom(text, i + 1, acc * 10 + text[i])
stoi(text) == StoiFrom(text, 1, 0)

\* json j; j[pair] = days; j.dump(): the members of the object
JsonDump(trackedPairs) == {<<p, trackedPairs[p]>> : p \in DOMAIN trackedPairs}

\* json::parse and the loop result.trackedPairs[pair] = days
JsonLoad(members) ==
    [p \in {x[1] : x \in members} |-> CHOOSE v \in {x[2] : x \in members} : <<p, v>> \in members]

\* storeTrackedPairs: the row that replaces the only row of tracked_pairs
TrackedRow(data) == [date |-> formatYMD(data.date), json |-> JsonDump(data.trackedPairs)]

\* getTrackedPairs: the row read back (date == EMPTY_DATE when there is none
\* or when its date text is not a date)
getTrackedPairs(row) ==
    IF row = NoRow THEN NoPrevious
    ELSE LET y == stoi(SubSeq(row.date, 1, 4))
             m == stoi(SubSeq(row.date, 6, 7))
             d == stoi(SubSeq(row.date, 9, 10))
         IN  [date |-> IF m \in 1..12 /\ d \in 1..31 THEN DaysFromCivil(y, m, d) ELSE EMPTY_DATE,
              trackedPairs |-> JsonLoad(row.json)]

\* the (pair, date) keys of an OHLCVData
DataKeys(data) == UNION {{<<p, d>> : d \in DOMAIN data[p]} : p \in DOMAIN data}

\* seeded fault: the cutoff day itself is removed too
pruneFutureCandles_DropsCutoffDay(data, cutoffDate) ==
    LET cutoffYMD == toYYYYMMDD(cutoffDate)
        kept(p)   == {d \in DOMAIN data[p] : d < cutoffYMD}
    IN  [p \in {q \in DOMAIN data : kept(q) # {}} |-> [d \in kept(p) |-> data[p][d]]]

\* seeded fault: a pair left without candles is not erased
pruneFutureCandles_KeepsEmptyPairs(data, cutoffDate) ==
    LET cutoffYMD == toYYYYMMDD(cutoffDate)
        kept(p)   == {d \in DOMAIN data[p] : ~(d > cutoffYMD)}
    IN  [p \in DOMAIN data |-> [d \in kept(p) |-> data[p][d]]]

\* pruneFutureCandles
pruneFutureCandles(data, cutoffDate) ==
    LET cutoffYMD == toYYYYMMDD(cutoffDate)
        kept(p)   == {d \in DOMAIN data[p] : ~(d > cutoffYMD)}
    IN  [p \in {q \in DOMAIN data : kept(q) # {}} |-> [d \in kept(p) |-> data[p][d]]]

\* fetchDataOHLCV as downloadData sees it: thrown when a worker's element loop
\* throws (std::terminate), else the merged result.data
FetchAll(targetDate, plan, resp) ==
    LET parsed(p) == ParseElems(resp[p].elems, toYYYYMMDD(targetDate), EmptyMap)
        yields(p) == resp[p].kind = "body" /\ parsed(p).data # EmptyMap
    IN  [thrown |-> \E p \in DOMAIN plan : resp[p].kind = "body" /\ parsed(p).thrown,
         data   |-> [p \in {q \in DOMAIN plan : yields(q)} |-> parsed(p).data]]

\* the rows of data in the order storeDataOHLCV binds them
RECURSIVE RowsInOrder(_, _)
RowsInOrder(data, keys) ==
    IF keys = {} THEN <<>>
    ELSE LET k == CHOOSE x \in keys : \A y \in keys :
                     \/ PairIndex(x[1]) < PairIndex(y[1])
                     \/ (x[1] = y[1] /\ x[2] <= y[2])
         IN  <<k>> \o RowsInOrder(data, keys \ {k})

\* INSERT ... ON CONFLICT(pair, date) DO UPDATE for the first n rows of data
Upsert(table, data, n) ==
    LET rows == RowsInOrder(data, DataKeys(data))
        ks   == {rows[i] : i \in 1..n}
    IN  [k \in DOMAIN table \cup ks |->
            IF k \in ks THEN data[k[1]][k[2]] ELSE table[k]]

\* what the exchange may answer to one klines request of call number v for
\* target day t
CycleResponses(t, v) ==
    { TransportFailure, Unparsable,
      Body(<<>>),
      Body(<<Elem(FALSE, t, TRUE, v)>>),
      Body(<<Elem(TRUE, t - 1, TRUE, v), Elem(TRUE, t, TRUE, v), Elem(TRUE, t + 1, TRUE, v)>>),
      Body(<<Elem(TRUE, t, TRUE, v), Elem(TRUE, t + 1, FALSE, v)>>) }

\* top50 before getTop50PairsByVolume is called
NotAsked == [asked |-> FALSE, thrown |-> FALSE, pairs |-> {}]

\* the content of the tables tracked_pairs and ohlcv_data
StoreContent(tracked, ohlcv) == [tracked |-> tracked, ohlcv |-> ohlcv]

\* if (!prev_exists || prev.date != date): the universe is refreshed
NeedsRefresh_Always(prev, date) == TRUE

NeedsRefresh(prev, date) == ~PrevExists(prev) \/ prev.date # date

\* if (top50.empty()): the cycle is abandoned
Top50Empty_Never(top50) == FALSE

Top50Empty(top50) == top50 = {}

CycleIdle ==
    /\ dbTracked = NoRow /\ dbOhlcv = EmptyMap /\ dbStart = <<>>
    /\ cyPc = "idle" /\ cyCount = 0 /\ cyDate = NoDay /\ cyPrev = NoPrevious
    /\ cyTracked = NoPrevious /\ cyPlan = EmptyMap /\ cyResp = EmptyMap
    /\ cyData = EmptyMap /\ cyRet = "none" /\ cyWritten = {} /\ cyAlive = TRUE
    /\ cyTop50 = NotAsked /\ cyTrace = <<>> /\ cyBefore = StoreContent(NoRow, EmptyMap)

\* a fresh store, the scheduler about to make its first call
CycleInit ==
    /\ dbTracked = NoRow /\ dbOhlcv = EmptyMap /\ dbStart = <<>>
    /\ cyPc = "wait" /\ cyCount = 0 /\ cyDate = FetchDate /\ cyPrev = NoPrevious
    /\ cyTracked = NoPrevious /\ cyPlan = EmptyMap /\ cyResp = EmptyMap
    /\ cyData = EmptyMap /\ cyRet = "none" /\ cyWritten = {} /\ cyAlive = TRUE
    /\ cyTop50 = NotAsked /\ cyTrace = <<>> /\ cyBefore = StoreContent(NoRow, EmptyMap)

\* downloadData returns or throws: back in the scheduling loop
Return(how) == cyPc' = "wait" /\ cyRet' = how

\* the scheduling loop starts processSecond, which calls downloadData for
\* yesterday's date
CyTick ==
    /\ cyAlive /\ cyPc = "wait" /\ cyCount < MaxCycles
    /\ cyCount' = cyCount + 1
    /\ \E step \in 0..MaxDayStep : cyDate' = IF cyCount = 0 THEN cyDate ELSE cyDate + step
    /\ cyPc' = "open"
    /\ cyPrev' = NoPrevious /\ cyTracked' = NoPrevious /\ cyPlan' = EmptyMap
    /\ cyResp' = EmptyMap /\ cyData' = EmptyMap /\ cyRet' = "none" /\ cyWritten' = {}
    /\ cyTop50' = NotAsked /\ cyTrace' = <<>> /\ cyBefore' = StoreContent(dbTracked, dbOhlcv)
    /\ UNCHANGED <<dbVars, cyAlive>>

\* openDatabaseOHLCV: nullptr on failure; the marker row is inserted when
\* date_of_start is empty
CyOpen ==
    /\ cyAlive /\ cyPc = "open"
    /\ \E opened \in BOOLEAN :
          IF opened
          THEN /\ dbStart' = IF dbStart = <<>> THEN <<toYYYYMMDD(cyDate)>> ELSE dbStart
               /\ cyPc' = "load" /\ UNCHANGED cyRet
          ELSE /\ Return("false") /\ UNCHANGED dbStart
    /\ cyTrace' = Append(cyTrace, "open")
    /\ UNCHANGED <<dbTracked, dbOhlcv, cyCount, cyDate, cyPrev, cyTracked, cyPlan, cyResp,
                   cyData, cyWritten, cyAlive, cyTop50, cyBefore>>

\* prev = getTrackedPairs(db); updated_tracked_data = prev; the already-current test
CyLoad ==
    /\ cyAlive /\ cyPc = "load"
    /\ cyPrev' = getTrackedPairs(dbTracked)
    /\ cyTracked' = cyPrev'
    /\ cyPc' = IF NeedsRefresh(cyPrev', cyDate) THEN "refresh" ELSE "plan"
    /\ cyTrace' = Append(cyTrace, "load")
    /\ UNCHANGED <<dbVars, cyCount, cyDate, cyPlan, cyResp, cyData, cyRet, cyWritten, cyAlive,
                   cyTop50, cyBefore>>

\* getTop50PairsByVolume (a set of symbols, empty on a transport failure, or an
\* exception on a body it cannot parse), the empty test, getNewTrackedPairs,
\* storeTrackedPairs (DELETE, then INSERT)
CyRefresh ==
    /\ cyAlive /\ cyPc = "refresh"
    /\ cyTrace' = Append(cyTrace, "refresh")
    /\ \/ /\ cyTop50' = [asked |-> TRUE, thrown |-> TRUE, pairs |-> {}]
          /\ Return("exception")          \* json::parse, get<>, std::stod throw
          /\ UNCHANGED <<dbTracked, cyTracked>>
       \/ \E top50 \in SUBSET CyclePairs :
            /\ cyTop50' = [asked |-> TRUE, thrown |-> FALSE, pairs |-> top50]
            /\ IF Top50Empty(top50)
               THEN /\ Return("false")
                    /\ UNCHANGED <<dbTracked, cyTracked>>
               ELSE LET updated == getNewTrackedPairs(cyPrev, top50, PrevExists(cyPrev), cyDate)
                    IN  /\ cyTracked' = updated
                        /\ \/ /\ dbTracked' = TrackedRow(updated)     \* stored
                              /\ cyPc' = "plan" /\ UNCHANGED cyRet
                           \/ /\ UNCHANGED dbTracked                  \* DELETE failed
                              /\ Return("false")
                           \/ /\ dbTracked' = NoRow                   \* prepare or INSERT failed
                              /\ Return("false")
    /\ UNCHANGED <<dbOhlcv, dbStart, cyCount, cyDate, cyPrev, cyPlan, cyResp, cyData,
                   cyWritten, cyAlive, cyBefore>>

\* dataToDownload = computeDaysSinceLastStoredOHLCV(...); empty: return false
CyPlan ==
    /\ cyAlive /\ cyPc = "plan"
    /\ cyPlan' = computeDaysSinceLastStoredOHLCV(DOMAIN dbOhlcv, cyTracked.trackedPairs, cyDate)
    /\ IF cyPlan' = EmptyMap THEN Return("false") ELSE cyPc' = "fetch" /\ UNCHANGED cyRet
    /\ cyTrace' = Append(cyTrace, "plan")
    /\ UNCHANGED <<dbVars, cyCount, cyDate, cyPrev, cyTracked, cyResp, cyData, cyWritten, cyAlive,
                   cyTop50, cyBefore>>

\* data_ohlcv = fetchDataOHLCV(date, dataToDownload)
CyFetch ==
    /\ cyAlive /\ cyPc = "fetch"
    /\ \E resp \in [DOMAIN cyPlan -> CycleResponses(cyDate, cyCount)] :
          LET got == FetchAll(cyDate, cyPlan, resp)
          IN  /\ cyResp' = resp
              /\ IF got.thrown
                 THEN cyAlive' = FALSE /\ UNCHANGED <<cyData, cyPc>>
                 ELSE cyData' = got.data /\ cyPc' = "prune" /\ UNCHANGED cyAlive
    /\ cyTrace' = Append(cyTrace, "fetch")
    /\ UNCHANGED <<dbVars, cyCount, cyDate, cyPrev, cyTracked, cyPlan, cyRet, cyWritten,
                   cyTop50, cyBefore>>

\* pruneFutureCandles(data_ohlcv, date); nothing left: return true
CyPrune ==
    /\ cyAlive /\ cyPc = "prune"
    /\ cyData' = pruneFutureCandles(cyData, cyDate)
    /\ IF cyData' = EmptyMap THEN Return("true") ELSE cyPc' = "store" /\ UNCHANGED cyRet
    /\ cyTrace' = Append(cyTrace, "prune")
    /\ UNCHANGED <<dbVars, cyCount, cyDate, cyPrev, cyTracked, cyPlan, cyResp, cyWritten, cyAlive,
                   cyTop50, cyBefore>>

\* storeDataOHLCV: row by row; a failing row ends it with the earlier rows written
CyStore ==
    /\ cyAlive /\ cyPc = "store"
    /\ LET total == Cardinality(DataKeys(cyData))
           rows  == RowsInOrder(cyData, DataKeys(cyData))
       IN  \E n \in 0..total :
              /\ dbOhlcv' = Upsert(dbOhlcv, cyData, n)
              /\ cyWritten' = {rows[i] : i \in 1..n}
              /\ Return(IF n = total THEN "true" ELSE "false")
    /\ cyTrace' = Append(cyTrace, "store")
    /\ UNCHANGED <<dbTracked, dbStart, cyCount, cyDate, cyPrev, cyTracked, cyPlan, cyResp,
                   cyData, cyAlive, cyTop50, cyBefore>>

(***************************************************************************)
(* Tick engine: Scheduler<TContext>                                        *)
(***************************************************************************)
SchedIdle ==
    /\ scMode = "none" /\ running = FALSE /\ globalStop = FALSE /\ lpPc = "idle"
    /\ lpNotified = FALSE /\ lpWake = "none" /\ lpTimeouts = 0 /\ tkState = "none"
    /\ tkThrew = FALSE /\ saPc = "idle" /\ stPc = "idle" /\ tkPast = FALSE

\* a constructed scheduler: running{false}, no worker thread. In blocking
\* mode the caller's thread is about to execute start().
SchedInit ==
    /\ scMode \in {"async", "blocking"}
    /\ running = FALSE /\ globalStop = FALSE
    /\ lpPc = IF scMode = "blocking" THEN "created" ELSE "idle"
    /\ lpNotified = FALSE /\ lpWake = "none" /\ lpTimeouts = 0
    /\ tkState = "none" /\ tkThrew = FALSE /\ tkPast = FALSE
    /\ saPc = IF scMode = "blocking" THEN "returned" ELSE "idle"
    /\ stPc = "idle"

StopRequested == globalStop \/ ~running

\* startAsync(): running = true
SaSetRunning ==
    /\ saPc = "idle" /\ scMode = "async"
    /\ running' = TRUE
    /\ saPc' = "spawn"
    /\ UNCHANGED <<scMode, globalStop, lpPc, lpNotified, lpWake, lpTimeouts, tkState, tkThrew, tkPast, stPc>>

\* startAsync(): worker = std::thread([this]() { start(); }); return
SaSpawn ==
    /\ saPc = "spawn"
    /\ lpPc' = "created"
    /\ saPc' = "returned"
    /\ UNCHANGED <<scMode, running, globalStop, lpNotified, lpWake, lpTimeouts, tkState, tkThrew, tkPast, stPc>>

\* start(): running = true (and the initial delay)
LpBegin ==
    /\ lpPc = "created"
    /\ running' = TRUE
    /\ lpPc' = "while"
    /\ UNCHANGED <<scMode, globalStop, lpNotified, lpWake, lpTimeouts, tkState, tkThrew, tkPast, saPc, stPc>>

\* start(): while (running)
LpWhile ==
    /\ lpPc = "while"
    /\ lpPc' = IF running THEN "launch" ELSE "exit"
    /\ UNCHANGED <<scMode, running, globalStop, lpNotified, lpWake, lpTimeouts, tkState, tkThrew, tkPast, saPc, stPc>>

\* start(): auto fut = std::async(std::launch::async, processSecond)
LpLaunch ==
    /\ lpPc = "launch"
    /\ tkState' = "running" /\ tkThrew' = FALSE
    /\ lpTimeouts' = 0 /\ lpWake' = "none"
    /\ lpPc' = "waitfor"
    /\ UNCHANGED <<scMode, running, globalStop, lpNotified, saPc, stPc, tkPast>>

\* processSecond() returns, or throws into the future's shared state
TkFinish ==
    /\ tkState = "running"
    /\ tkState' = "done"
    /\ tkThrew' \in BOOLEAN
    /\ UNCHANGED <<scMode, running, globalStop, lpPc, lpNotified, lpWake, lpTimeouts, saPc, stPc,
                   tkPast>>

\* fut.wait_for(timeout) and ~future() hand no stored exception to the loop
\* thread (only fut.get() would, and start() never calls it)
Rethrown_AsByGet(threw) == threw

Rethrown(threw) == FALSE

\* fut.wait_for(timeout) == std::future_status::timeout
TimedOut_Always(state) == TRUE

TimedOut(state) == state = "running"

\* start(): fut.wait_for(timeout) returns ready
LpWaitReady ==
    /\ lpPc = "waitfor" /\ tkState = "done"
    /\ lpPc' = IF Rethrown(tkThrew) THEN "terminated" ELSE "check1"
    /\ UNCHANGED <<scMode, running, globalStop, lpNotified, lpWake, lpTimeouts, tkState, tkThrew, tkPast, saPc, stPc>>

\* start(): fut.wait_for(timeout) returns timeout; onTimeout()
LpWaitTimeout ==
    /\ lpPc = "waitfor" /\ TimedOut(tkState)
    /\ lpTimeouts' = lpTimeouts + 1
    /\ lpPc' = "check1"
    /\ UNCHANGED <<scMode, running, globalStop, lpNotified, lpWake, tkState, tkThrew, tkPast, saPc, stPc>>

\* start(): first stop check; nextTick += interval; the lock on cvMutex
LpCheck1 ==
    /\ lpPc = "check1"
    /\ lpPc' = IF StopRequested THEN "break" ELSE "pred"
    /\ UNCHANGED <<scMode, running, globalStop, lpNotified, lpWake, lpTimeouts, tkState, tkThrew, tkPast, saPc, stPc>>

\* cv.wait_until(lock, nextTick, pred): while (!pred()) ...; the predicate is
\* read holding cvMutex
LpPred ==
    /\ lpPc = "pred"
    /\ IF StopRequested
       THEN /\ lpPc' = "check2"
            /\ lpWake' = IF lpWake = "none" THEN "pred" ELSE lpWake
       ELSE /\ lpPc' = "enterwait"
            /\ UNCHANGED lpWake
    /\ lpNotified' = FALSE
    /\ UNCHANGED <<scMode, running, globalStop, lpTimeouts, tkState, tkThrew, tkPast, saPc, stPc>>

\* cv.wait_until(lock, nextTick): the thread releases cvMutex and blocks.
\* stop() takes no mutex, so its store and notify_all can fall between the
\* read of the predicate and this step.
LpBlock ==
    /\ lpPc = "enterwait"
    /\ lpPc' = "blocked"
    /\ UNCHANGED <<scMode, running, globalStop, lpNotified, lpWake, lpTimeouts, tkState, tkThrew, tkPast, saPc, stPc>>

\* cv.wait_until: a notified waiter resumes and reads the predicate again
LpWoken ==
    /\ lpPc = "blocked" /\ lpNotified
    /\ lpWake' = "notified"
    /\ lpPc' = "pred"
    /\ UNCHANGED <<scMode, running, globalStop, lpNotified, lpTimeouts, tkState, tkThrew, tkPast, saPc, stPc>>

\* cv.wait_until: nextTick is reached; the wait returns pred()
LpDeadline ==
    /\ lpPc = "blocked" /\ ~lpNotified
    /\ lpWake' = "deadline"
    /\ lpPc' = "check2"
    /\ UNCHANGED <<scMode, running, globalStop, lpNotified, lpTimeouts, tkState, tkThrew, tkPast, saPc, stPc>>

\* start(): second stop check
LpCheck2 ==
    /\ lpPc = "check2"
    /\ lpPc' = IF StopRequested THEN "break" ELSE "next"
    /\ UNCHANGED <<scMode, running, globalStop, lpNotified, lpWake, lpTimeouts, tkState, tkThrew, tkPast, saPc, stPc>>

\* seeded fault: a future whose destructor does not wait
FutureReleased_NoJoin(pc) == TRUE

\* the future of an iteration is destroyed at the end of the loop body, and
\* ~future() of std::async blocks until the invocation has ended (returned,
\* or thrown into the shared state)
FutureReleased(pc) == pc \in {"done", "threw"}

\* end of the loop body, by break or not: ~future()
LpEndIteration ==
    /\ lpPc \in {"break", "next"} /\ FutureReleased(tkState)
    /\ tkState' = "none"
    /\ tkPast' = (tkPast \/ tkThrew)
    /\ lpPc' = IF lpPc = "break" THEN "exit" ELSE "while"
    /\ UNCHANGED <<scMode, running, globalStop, lpNotified, lpWake, lpTimeouts, tkThrew, saPc, stPc>>

\* stop(): running = false
StClear ==
    /\ stPc = "idle" /\ saPc = "returned"
    /\ running' = FALSE
    /\ stPc' = "notify"
    /\ UNCHANGED <<scMode, globalStop, lpPc, lpNotified, lpWake, lpTimeouts, tkState, tkThrew, tkPast, saPc>>

\* stop(): cv.notify_all() (cvMutex is not taken)
StNotify ==
    /\ stPc = "notify"
    /\ lpNotified' = IF lpPc = "blocked" THEN TRUE ELSE lpNotified
    /\ stPc' = "join"
    /\ UNCHANGED <<scMode, running, globalStop, lpPc, lpWake, lpTimeouts, tkState, tkThrew, tkPast, saPc>>

\* stop(): if (worker.joinable()) worker.join(); return
StJoin ==
    /\ stPc = "join"
    /\ scMode = "async" => lpPc = "exit"
    /\ stPc' = "returned"
    /\ UNCHANGED <<scMode, running, globalStop, lpPc, lpNotified, lpWake, lpTimeouts, tkState, tkThrew, tkPast, saPc>>

\* signalHandler: globalStop.store(true)
SetGlobalStop ==
    /\ ~globalStop /\ saPc = "returned"
    /\ globalStop' = TRUE
    /\ UNCHANGED <<scMode, running, lpPc, lpNotified, lpWake, lpTimeouts, tkState, tkThrew, tkPast, saPc, stPc>>

(***************************************************************************)
(* Configuration publisher: ConfigHandler<TConfig>, and its consumer       *)
(***************************************************************************)
MaxWrites  == 2
MaxPublish == 3
MaxJitter  == 1     \* largest offset that the two clock reads of the conversion add
ConfigValues == {1, 2}
\* std::chrono::system_clock::time_point::min()
TimeMin == -1

\* time_point_cast<system_clock::duration>(ftime - file_clock::now() +
\* system_clock::now()): the write time moved by what passed between the two
\* clock reads; writes of the file lie further apart than that
sctpOf(ftime, jitter) == ftime * (MaxJitter + 1) + jitter

\* the write time that a converted time came from
WriteTimeOf(t) == t \div (MaxJitter + 1)

\* LoadFromFile throws: the file does not load, validate or parse
LoadFails_Never(file) == FALSE

LoadFails(file) == file = 0

\* nextConfig = newPtr
Publish_KeepsPending(slot, candidate, n) ==
    IF slot = [val |-> 0, seq |-> 0] THEN [val |-> candidate, seq |-> n] ELSE slot

Publish(slot, candidate, n) == [val |-> candidate, seq |-> n]
\* nullptr in nextConfig
NoConfig == [val |-> 0, seq |-> 0]

ConfigIdle ==
    /\ cfFile = 0 /\ cfMtime = 0 /\ lastLoadedTime = 0 /\ currentConfig = 0
    /\ nextConfig = NoConfig /\ mtx = "free" /\ pbPc = "idle" /\ pbSctp = 0
    /\ pbCandidate = 0 /\ csPc = "idle" /\ csOut = NoConfig /\ ctxConfig = 0
    /\ cfPublished = 0 /\ cfTaken = 0 /\ cfHanded = 0 /\ cfRejectedAt = -1

\* main is about to construct the ConfigHandler; the file may not validate
ConfigInit ==
    /\ cfFile \in {0} \cup ConfigValues
    /\ cfMtime = 0 /\ lastLoadedTime = TimeMin
    /\ currentConfig = 0
    /\ nextConfig = NoConfig /\ mtx = "free"
    /\ pbPc = "construct" /\ pbSctp = 0 /\ pbCandidate = 0
    /\ csPc = "idle" /\ csOut = NoConfig
    /\ ctxConfig = 0
    /\ cfPublished = 0 /\ cfTaken = 0 /\ cfHanded = 0 /\ cfRejectedAt = -1

\* the constructor: LoadFromFile (an exception is rethrown, nothing is
\* constructed), currentConfig, nextConfig = nullptr, lastLoadedTime; then
\* main copies getCurrentConfig() into the context
PbConstruct ==
    /\ pbPc = "construct"
    /\ IF LoadFails(cfFile)
       THEN /\ pbPc' = "failed"
            /\ UNCHANGED <<currentConfig, nextConfig, lastLoadedTime, ctxConfig>>
       ELSE /\ pbPc' = "idle"
            /\ currentConfig' = cfFile
            /\ nextConfig' = NoConfig
            /\ \E ec \in BOOLEAN, jitter \in 0..MaxJitter :
                  lastLoadedTime' = IF ec THEN TimeMin ELSE sctpOf(cfMtime, jitter)
            /\ ctxConfig' = cfFile
    /\ UNCHANGED <<cfFile, cfMtime, mtx, pbSctp, pbCandidate, csPc, csOut, cfPublished,
                   cfTaken, cfHanded, cfRejectedAt>>

\* std::lock_guard<std::mutex> lock(mtx) can be taken
Acquirable_NoMutex == TRUE
Acquirable == mtx = "free"

\* somebody rewrites the file; the new content may not validate
FileWrite ==
    /\ cfMtime < MaxWrites
    /\ cfMtime' = cfMtime + 1
    /\ cfFile' \in {0} \cup ConfigValues
    /\ UNCHANGED <<lastLoadedTime, currentConfig, nextConfig, mtx, pbPc, pbSctp, pbCandidate,
                   csPc, csOut, ctxConfig, cfPublished, cfTaken, cfHanded,
                   cfRejectedAt>>

\* processSecond(): last_write_time, sctp, `if (sctp <= lastLoadedTime) return`
PbCheckTime ==
    /\ pbPc = "idle" /\ cfPublished < MaxPublish
    /\ \E ec \in BOOLEAN, jitter \in 0..MaxJitter :
          LET sctp == sctpOf(cfMtime, jitter)
          IN  IF ec \/ sctp <= lastLoadedTime
              THEN UNCHANGED <<pbPc, pbSctp>>
              ELSE pbPc' = "load" /\ pbSctp' = sctp
    /\ UNCHANGED <<cfFile, cfMtime, lastLoadedTime, currentConfig, nextConfig, mtx, pbCandidate,
                   csPc, csOut, ctxConfig, cfPublished, cfTaken, cfHanded,
                   cfRejectedAt>>

\* processSecond(): candidate.LoadFromFile, return on an exception
PbLoad ==
    /\ pbPc = "load"
    /\ IF LoadFails(cfFile)
       THEN pbPc' = "idle" /\ cfRejectedAt' = cfPublished /\ UNCHANGED pbCandidate
       ELSE pbPc' = "compare" /\ pbCandidate' = cfFile /\ UNCHANGED cfRejectedAt
    /\ UNCHANGED <<cfFile, cfMtime, lastLoadedTime, currentConfig, nextConfig, mtx, pbSctp,
                   csPc, csOut, ctxConfig, cfPublished, cfTaken, cfHanded>>

\* processSecond(): the comparison with currentConfig, under mtx
PbCompare ==
    /\ pbPc = "compare" /\ Acquirable
    /\ IF currentConfig = pbCandidate
       THEN pbPc' = "idle" /\ lastLoadedTime' = pbSctp
       ELSE pbPc' = "publish" /\ UNCHANGED lastLoadedTime
    /\ UNCHANGED <<cfFile, cfMtime, currentConfig, nextConfig, mtx, pbSctp, pbCandidate,
                   csPc, csOut, ctxConfig, cfPublished, cfTaken, cfHanded,
                   cfRejectedAt>>

\* processSecond(): { lock; nextConfig = newPtr; }
PbPublish ==
    /\ pbPc = "publish" /\ Acquirable
    /\ nextConfig' = Publish(nextConfig, pbCandidate, cfPublished + 1)
    /\ cfPublished' = cfPublished + 1
    /\ pbPc' = "stamp"
    /\ UNCHANGED <<cfFile, cfMtime, lastLoadedTime, currentConfig, mtx, pbSctp, pbCandidate,
                   csPc, csOut, ctxConfig, cfTaken, cfHanded,
                   cfRejectedAt>>

\* processSecond(): lastLoadedTime = sctp
PbStamp ==
    /\ pbPc = "stamp"
    /\ lastLoadedTime' = pbSctp
    /\ pbPc' = "idle"
    /\ UNCHANGED <<cfFile, cfMtime, currentConfig, nextConfig, mtx, pbSctp, pbCandidate,
                   csPc, csOut, ctxConfig, cfPublished, cfTaken, cfHanded,
                   cfRejectedAt>>

\* consumeNextConfig(): std::lock_guard<std::mutex> lock(mtx)
CsEnter ==
    /\ csPc = "idle" /\ pbPc \notin {"construct", "failed"} /\ Acquirable
    /\ mtx' = "con"
    /\ csPc' = "check"
    /\ UNCHANGED <<cfFile, cfMtime, lastLoadedTime, currentConfig, nextConfig, pbPc, pbSctp,
                   pbCandidate, csOut, ctxConfig, cfPublished, cfTaken, cfHanded,
                   cfRejectedAt>>

\* consumeNextConfig(): if (!nextConfig) return false
CsCheck ==
    /\ csPc = "check"
    /\ IF nextConfig = NoConfig
       THEN csPc' = "idle" /\ mtx' = "free"
       ELSE csPc' = "copy" /\ UNCHANGED mtx
    /\ UNCHANGED <<cfFile, cfMtime, lastLoadedTime, currentConfig, nextConfig, pbPc, pbSctp,
                   pbCandidate, csOut, ctxConfig, cfPublished, cfTaken, cfHanded,
                   cfRejectedAt>>

\* consumeNextConfig(): out = *nextConfig
CsCopy ==
    /\ csPc = "copy"
    /\ csOut' = nextConfig
    /\ csPc' = "reset"
    /\ UNCHANGED <<cfFile, cfMtime, lastLoadedTime, currentConfig, nextConfig, mtx, pbPc, pbSctp,
                   pbCandidate, ctxConfig, cfPublished, cfTaken, cfHanded,
                   cfRejectedAt>>

\* consumeNextConfig(): nextConfig.reset(); return true; and the caller's
\* ctxRef.config = std::move(newConfig)
CsReset ==
    /\ csPc = "reset"
    /\ nextConfig' = NoConfig
    /\ mtx' = "free"
    /\ ctxConfig' = csOut.val
    /\ cfTaken' = csOut.seq
    /\ cfHanded' = cfHanded + 1
    /\ csPc' = "idle"
    /\ UNCHANGED <<cfFile, cfMtime, lastLoadedTime, currentConfig, pbPc, pbSctp, pbCandidate,
                   csOut, cfPublished, cfRejectedAt>>

(***************************************************************************)
(* Candle table: storeDataOHLCV                                            *)
(***************************************************************************)
MaxStores  == 2
StorePairs == {"BTCUSDT", "ETHUSDT"}
StoreDates == {20240131, 20240201}
StoreVals  == {1, 2}

\* the OHLCVData values handed to storeDataOHLCV; the candles of one call
\* carry that call's value
StoreInputs ==
    UNION {UNION {[ps -> UNION {[ds -> {v}] : ds \in (SUBSET StoreDates) \ {{}}}] :
                     ps \in SUBSET StorePairs} : v \in StoreVals}

RowKey(r) == <<r[1], r[2]>>

\* seeded fault: ON CONFLICT(pair, date) DO NOTHING
storeRow_KeepsOld(rows, k, v) ==
    IF \E r \in rows : RowKey(r) = k THEN rows ELSE rows \cup {<<k[1], k[2], v>>}

\* one sqlite3_step of INSERT ... ON CONFLICT(pair, date) DO UPDATE SET ...
\* on a table with PRIMARY KEY(pair, date)
storeRow(rows, k, v) ==
    IF \E r \in rows : RowKey(r) = k
    THEN {IF RowKey(r) = k THEN <<k[1], k[2], v>> ELSE r : r \in rows}
    ELSE rows \cup {<<k[1], k[2], v>>}

\* storeDataOHLCV whose first n steps succeed (n = 0 also when prepare fails)
RECURSIVE storeDataOHLCV(_, _, _)
storeDataOHLCV(rows, data, n) ==
    IF n = 0 THEN rows
    ELSE LET k == RowsInOrder(data, DataKeys(data))[n]
         IN  storeRow(storeDataOHLCV(rows, data, n - 1), k, data[k[1]][k[2]])

\* the keys of the rows that the call wrote
StoredKeys(data, n) == {RowsInOrder(data, DataKeys(data))[i] : i \in 1..n}

StoreIdle ==
    /\ soRows = {} /\ soBefore = {} /\ soData = EmptyMap /\ soN = 0 /\ soCalls = 0
    /\ soKeys = {} /\ soLast = EmptyMap

\* the table as openDatabaseOHLCV creates it
StoreInit ==
    /\ soRows = {} /\ soBefore = {} /\ soData = EmptyMap /\ soN = 0 /\ soCalls = 0
    /\ soKeys = {} /\ soLast = EmptyMap

CallStoreDataOHLCV ==
    /\ soCalls < MaxStores
    /\ \E data \in StoreInputs : \E n \in 0..Cardinality(DataKeys(data)) :
          LET written == StoredKeys(data, n)
          IN  /\ soData' = data /\ soN' = n
              /\ soBefore' = soRows
              /\ soRows' = storeDataOHLCV(soRows, data, n)
              /\ soKeys' = soKeys \cup written
              /\ soLast' = [k \in DOMAIN soLast \cup written |->
                               IF k \in written THEN data[k[1]][k[2]] ELSE soLast[k]]
    /\ soCalls' = soCalls + 1

(***************************************************************************)
(* pruneFutureCandles as a function of its arguments                       *)
(***************************************************************************)
MaxAhead == 1
PrunePairs   == {"BTCUSDT", "ETHUSDT"}
PruneCutoffs == {DaysFromCivil(2024, 1, 31), DaysFromCivil(2024, 12, 31)}
PruneVals    == {1, 2}

\* candle maps around the cutoff day: a pair may come with no candle at all
PruneInputs(cutoff) ==
    LET days == {toYYYYMMDD(cutoff + k) : k \in (0 - 1)..MaxAhead}
    IN  UNION {[ps -> UNION {[ds -> PruneVals] : ds \in SUBSET days}] :
                  ps \in SUBSET PrunePairs}

PruneIdle == prData = EmptyMap /\ prCutoff = NoDay /\ prResult = EmptyMap /\ prPc = "idle"

PruneInit ==
    /\ prCutoff \in PruneCutoffs
    /\ prData \in PruneInputs(prCutoff)
    /\ prResult = EmptyMap
    /\ prPc = "call"

CallPruneFutureCandles ==
    /\ prPc = "call"
    /\ prResult' = pruneFutureCandles(prData, prCutoff)
    /\ prPc' = "once"
    /\ UNCHANGED <<prData, prCutoff>>

\* the function applied to its own result
CallPruneAgain ==
    /\ prPc = "once"
    /\ prResult' = pruneFutureCandles(prResult, prCutoff)
    /\ prPc' = "twice"
    /\ UNCHANGED <<prData, prCutoff>>

(***************************************************************************)
(* Earliest-date marker: openDatabaseOHLCV                                 *)
(***************************************************************************)
MaxOpens == 3
OpenDates == {toYYYYMMDD(DaysFromCivil(2024, 1, 30) + k) : k \in 0..3}

\* how a call can go: "nullptr": sqlite3_open, the schema or the COUNT
\* prepare fails; "nocount": the COUNT step gives no row, isEmpty stays
\* false; "noinsert": prepare or step of the INSERT fails; "ok": no failure
OpenOutcomes == {"nullptr", "nocount", "noinsert", "ok"}

\* seeded fault: the INSERT runs whether or not the table is empty
openDatabaseOHLCV_AlwaysInserts(rows, yymmdd, outcome) ==
    IF outcome = "ok" THEN rows \cup {yymmdd} ELSE rows

\* the rows of date_of_start after openDatabaseOHLCV(path, yymmdd)
openDatabaseOHLCV(rows, yymmdd, outcome) ==
    LET isEmpty == outcome \in {"noinsert", "ok"} /\ rows = {}
    IN  IF isEmpty /\ outcome = "ok" THEN rows \cup {yymmdd} ELSE rows

OpenIdle ==
    opRows = {} /\ opDate = NoDay /\ opOutcome = "none" /\ opCalls = 0 /\ opFirst = NoDay

\* no database file yet
OpenInit ==
    opRows = {} /\ opDate = NoDay /\ opOutcome = "none" /\ opCalls = 0 /\ opFirst = NoDay

CallOpenDatabaseOHLCV ==
    /\ opCalls < MaxOpens
    /\ \E yymmdd \in OpenDates, outcome \in OpenOutcomes :
          /\ opDate' = yymmdd /\ opOutcome' = outcome
          /\ opRows' = openDatabaseOHLCV(opRows, yymmdd, outcome)
          /\ opFirst' = IF opFirst = NoDay /\ opRows' # opRows THEN yymmdd ELSE opFirst
    /\ opCalls' = opCalls + 1

(***************************************************************************)
(* Tracked state record: storeTrackedPairs, getTrackedPairs                *)
(***************************************************************************)
MaxTrackedWrites == 2
TrackedPairsSet  == {"BTCUSDT", "ETHUSDT"}
TrackedDates     == {DaysFromCivil(2024, 1, 31), DaysFromCivil(2024, 2, 1)}

\* the TrackedData values handed to storeTrackedPairs
TrackedInputs ==
    {[date |-> d, trackedPairs |-> m] :
        d \in TrackedDates, m \in UNION {[ps -> 0..1] : ps \in SUBSET TrackedPairsSet}}

\* "nodelete": the DELETE fails; "noprepare", "nostep": prepare or step of
\* the INSERT fails after the DELETE; "ok": the row is written
TrackedOutcomes == {"nodelete", "noprepare", "nostep", "ok"}

\* seeded fault: the old row is not deleted (date is the primary key)
storeTrackedPairs_NoDelete(rows, data, outcome) ==
    IF outcome = "ok" /\ ~(\E r \in rows : r.date = formatYMD(data.date))
    THEN rows \cup {TrackedRow(data)}
    ELSE rows

\* the rows of tracked_pairs after storeTrackedPairs(db, data)
storeTrackedPairs(rows, data, outcome) ==
    IF outcome = "nodelete" THEN rows
    ELSE IF outcome = "ok" THEN {TrackedRow(data)}
    ELSE {}

TrackedIdle ==
    tsRows = {} /\ tsData = Absent /\ tsOutcome = "none" /\ tsLoaded = Absent /\ tsCalls = 0

\* the table as openDatabaseOHLCV creates it
TrackedInit ==
    tsRows = {} /\ tsData = Absent /\ tsOutcome = "none" /\ tsLoaded = Absent /\ tsCalls = 0

CallStoreTrackedPairs ==
    /\ tsCalls < MaxTrackedWrites
    /\ \E data \in TrackedInputs, outcome \in TrackedOutcomes :
          /\ tsData' = data /\ tsOutcome' = outcome
          /\ tsRows' = storeTrackedPairs(tsRows, data, outcome)
    /\ tsLoaded' = Absent
    /\ tsCalls' = tsCalls + 1

\* SELECT date, json FROM tracked_pairs LIMIT 1
CallGetTrackedPairs ==
    /\ tsLoaded = Absent
    /\ \E row \in IF tsRows = {} THEN {NoRow} ELSE tsRows : tsLoaded' = getTrackedPairs(row)
    /\ UNCHANGED <<tsRows, tsData, tsOutcome, tsCalls>>

(***************************************************************************)
(* Universe snapshot: getTop50PairsByVolume                                *)
(***************************************************************************)
MaxTickers == 2
TOP_COUNT  == 50

\* a JSON field of a ticker: a string, absent, or of another type. For
\* symbol val is the text; for quoteVolume it is the number the text spells
\* (0 when it spells none)
SymStr(name) == [kind |-> "string", val |-> name]
SymMissing   == [kind |-> "missing", val |-> ""]
SymNotAStr   == [kind |-> "other", val |-> ""]
VolStr(v)    == [kind |-> "string", val |-> v]
VolMissing   == [kind |-> "missing", val |-> 0]
VolNotAStr   == [kind |-> "other", val |-> 0]
VolNotANum   == [kind |-> "string", val |-> 0]
Ticker(symbol, quoteVolume) == [symbol |-> symbol, quoteVolume |-> quoteVolume]

\* symbol.size() > 4 && symbol.substr(symbol.size() - 4) == "USDT"
IsUsdtSymbol(name) == name \in {"BTCUSDT", "ETHUSDT", "DOGEUSDT"}

GoodTickers ==
    {Ticker(SymStr(n), VolStr(v)) : n \in {"BTCUSDT", "ETHUSDT", "ETHBTC"}, v \in 1..2}
BadTickers ==
    { Ticker(SymMissing, VolStr(1)), Ticker(SymNotAStr, VolStr(1)),
      Ticker(SymStr("BTCUSDT"), VolMissing), Ticker(SymStr("BTCUSDT"), VolNotAStr),
      Ticker(SymStr("BTCUSDT"), VolNotANum), Ticker(SymStr("ETHBTC"), VolMissing) }

\* the request: curl fails (init or perform), or a body arrives that is not
\* JSON, is a JSON object (the exchange's error reply), or is an array
Top50Failures == {[kind |-> "transport", items |-> <<>>],
                  [kind |-> "unparsable", items |-> <<>>],
                  [kind |-> "object", items |-> <<>>]}
Top50Responses ==
    Top50Failures \cup
    {[kind |-> "array", items |-> it] :
        it \in UNION {[1..n -> GoodTickers \cup BadTickers] : n \in 0..MaxTickers}}

\* the loop over the tickers: thrown by get<std::string>() on a field that
\* is not a string and by std::stod on a text that is no number
RECURSIVE CollectPairs(_, _, _)
CollectPairs(items, i, pairs) ==
    IF i > Len(items) THEN [thrown |-> FALSE, pairs |-> pairs]
    ELSE LET item == items[i]
         IN  IF item.symbol.kind # "string" THEN [thrown |-> TRUE, pairs |-> pairs]
             ELSE IF ~IsUsdtSymbol(item.symbol.val) THEN CollectPairs(items, i + 1, pairs)
             ELSE IF item.quoteVolume.kind # "string" \/ item.quoteVolume.val = 0
                  THEN [thrown |-> TRUE, pairs |-> pairs]
             ELSE CollectPairs(items, i + 1,
                               Append(pairs, [symbol |-> item.symbol.val,
                                              quoteVol |-> item.quoteVolume.val]))

\* the symbols of the count pairs of largest quoteVol (sets of them, as
\* std::sort leaves the order of equal volumes open)
TopSets(pairs) ==
    LET count == IF Len(pairs) < TOP_COUNT THEN Len(pairs) ELSE TOP_COUNT
    IN  {{pairs[i].symbol : i \in I} :
            I \in {J \in SUBSET (1..Len(pairs)) :
                      /\ Cardinality(J) = count
                      /\ \A a \in J, b \in (1..Len(pairs)) \ J :
                            pairs[a].quoteVol >= pairs[b].quoteVol}}

\* DatabaseDownloader::getTop50PairsByVolume: what it can end with
getTop50PairsByVolume(resp) ==
    IF resp.kind = "transport" THEN {[thrown |-> FALSE, result |-> {}]}
    ELSE IF resp.kind \in {"unparsable", "object"} THEN {[thrown |-> TRUE, result |-> {}]}
    ELSE LET got == CollectPairs(resp.items, 1, <<>>)
         IN  IF got.thrown THEN {[thrown |-> TRUE, result |-> {}]}
             ELSE {[thrown |-> FALSE, result |-> r] : r \in TopSets(got.pairs)}

Top50Idle == tpResp = NoResponse /\ tpResult = {} /\ tpThrown = FALSE /\ tpDone = FALSE

Top50Init ==
    /\ tpResp \in Top50Responses
    /\ tpResult = {} /\ tpThrown = FALSE /\ tpDone = FALSE

CallGetTop50PairsByVolume ==
    /\ ~tpDone
    /\ \E out \in getTop50PairsByVolume(tpResp) :
          tpResult' = out.result /\ tpThrown' = out.thrown
    /\ tpDone' = TRUE
    /\ UNCHANGED tpResp

(***************************************************************************)
(* Claims on the tracked-pair state tracker                                *)
(***************************************************************************)
\* C1: every pair of today's top-N has counter 0 in the recomputed state,
\* whatever the previous state (existing or not) and its previous counter.
C1_TopPairsReset ==
    trDone => \A p \in trTop :
                 /\ p \in DOMAIN trResult.trackedPairs
                 /\ trResult.trackedPairs[p] = 0

\* a pair that had a positive counter re-enters the top-N and is reset
C1_Witness ==
    /\ trDone
    /\ PrevExists(trPrev)
    /\ \E p \in trTop :
          /\ p \in DOMAIN trPrev.trackedPairs
          /\ trPrev.trackedPairs[p] > 0
          /\ trResult.trackedPairs[p] = 0

ScenarioB_Prev ==
    [date |-> DaysFromCivil(2024, 1, 17),
     trackedPairs |-> [p \in {"BTCUSDT", "DOGEUSDT"} |-> IF p = "DOGEUSDT" THEN 3 ELSE 0]]

\* C2: with an existing previous state, every previously tracked pair absent
\* from today's top-N gets previous counter + max(target - asOfDate, 1), so
\* its counter strictly increases; scenario B gives {BTCUSDT:0, DOGEUSDT:4}.
C2_AbsentPairsAccumulate ==
    (trDone /\ PrevExists(trPrev)) =>
        /\ \A p \in (DOMAIN trPrev.trackedPairs) \ trTop :
              /\ p \in DOMAIN trResult.trackedPairs
              /\ trResult.trackedPairs[p] =
                    trPrev.trackedPairs[p] + Max2(trDate - trPrev.date, 1)
              /\ trResult.trackedPairs[p] > trPrev.trackedPairs[p]
        /\ (trPrev = ScenarioB_Prev /\ trTop = {"BTCUSDT"}
                /\ trDate = DaysFromCivil(2024, 1, 18)) =>
              trResult.trackedPairs =
                 [p \in {"BTCUSDT", "DOGEUSDT"} |-> IF p = "DOGEUSDT" THEN 4 ELSE 0]

\* the target date is not later than the previous asOfDate and an absent pair
\* still moves up by one
C2_Witness ==
    /\ trDone
    /\ PrevExists(trPrev)
    /\ trDate <= trPrev.date
    /\ \E p \in (DOMAIN trPrev.trackedPairs) \ trTop :
          trResult.trackedPairs[p] = trPrev.trackedPairs[p] + 1

\* C13: key set of the recomputed tracked state: with no previous state its
\* pairs are exactly today's top-N, all at 0; with a previous state they are
\* exactly the top-N together with the pairs of the previous state.
C13_TrackedKeySet ==
    trDone =>
       IF PrevExists(trPrev)
       THEN DOMAIN trResult.trackedPairs = trTop \cup DOMAIN trPrev.trackedPairs
       ELSE /\ DOMAIN trResult.trackedPairs = trTop
            /\ \A p \in trTop : trResult.trackedPairs[p] = 0

\* a previous pair outside the top-N, a new top-N pair, and a pair in neither
C13_Witness ==
    /\ trDone /\ PrevExists(trPrev)
    /\ \E p \in DOMAIN trPrev.trackedPairs : p \notin trTop
    /\ \E p \in trTop : p \notin DOMAIN trPrev.trackedPairs
    /\ \E p \in Pairs : p \notin trTop /\ p \notin DOMAIN trPrev.trackedPairs

(***************************************************************************)
(* Claims on the backfill plan                                             *)
(***************************************************************************)
Clamp(x, lo, hi) == IF x < lo THEN lo ELSE IF x > hi THEN hi ELSE x

\* C3: for every tracked pair whose last stored candle date L is earlier than
\* the target date T, the planned number of days is the number of calendar
\* days from L to T clamped to [1,100].
C3_PlanIsCalendarDays ==
    plDone => \A p \in DOMAIN plTracked :
                 (plLastDay[p] # NoDay /\ plLastDay[p] < plDate) =>
                    /\ p \in DOMAIN plResult
                    /\ plResult[p] = Clamp(plDate - plLastDay[p], 1, 100)

Min(a, b) == IF a < b THEN a ELSE b

\* C38: for every tracked pair whose last stored candle is dated L before the
\* target date T, the planned number of days is at least min(T - L in calendar
\* days, 100), and when T - L is at most 100 the window requested for the pair
\* starts no later than the day after L.
C38_WindowCoversTheGap ==
    plDone => \A p \in DOMAIN plTracked :
        (plLastDay[p] # NoDay /\ plLastDay[p] < plDate) =>
            /\ p \in DOMAIN plResult
            /\ plResult[p] >= Min(plDate - plLastDay[p], 100)
            /\ plDate - plLastDay[p] <= 100 =>
                  /\ startSys(plDate, plResult[p]) <= plLastDay[p] + 1
                  /\ \A tz \in UtcOffsets :
                        FirstDayFrom(startMs(plDate, plResult[p], tz)) <= plLastDay[p] + 1

(***************************************************************************)
(* Claims on the fetch/merge pipeline and the ingestion cycle              *)
(***************************************************************************)
\* C5: a transport failure, an unparsable body or a body with malformed
\* elements for one pair yields zero candles for that pair only: the fetch
\* goes on, and when it returns every other pair's candles are in the result.
C5_FetchIsolation ==
    /\ ftAlive
    /\ ftMain = "done" =>
          \A j \in 1..ftN :
             IF ftResp[j] = GoodBody(j, ftDate)
             THEN j \in DOMAIN ftResult /\ DOMAIN ftResult[j] = {toYYYYMMDD(ftDate)}
             ELSE j \notin DOMAIN ftResult

\* C16: bounded fetch concurrency: at every instant at most 8 fetch workers
\* are running; no worker of a batch starts before every worker of the
\* preceding batch has finished; one fetch is started per pair of the plan
\* (a pair has a worker exactly when the spawn loop has passed it, its one
\* request is made by that worker, and all are made when the call returns).
C16_BoundedFetchConcurrency ==
    LET Running  == {j \in 1..ftN : ftW[j] \in {"started", "parsed", "merging"}}
        Batch(j) == (j - 1) \div MAX_THREADS
    IN  /\ Cardinality(Running) <= MAX_THREADS
        /\ \A j \in 1..ftN, k \in 1..ftN :
              (Batch(k) < Batch(j) /\ ftW[j] # "idle") => ftW[k] = "done"
        /\ \A j \in 1..ftN :
              /\ ftW[j] # "idle" <=> j < ftJ
              /\ ftResp[j] # NoResponse => ftW[j] \notin {"idle", "started"} \/ ~ftAlive
              /\ ftMain = "done" => ftW[j] = "done" /\ ftResp[j] # NoResponse

\* nine pairs: the ninth worker runs alone after the eight of the first batch
C16_Witness ==
    /\ ftN = 9 /\ ftAlive
    /\ ftW[9] = "started"
    /\ \A j \in 1..8 : ftW[j] = "done" /\ ftResp[j] # NoResponse

\* the candles that worker j parsed from its own response
OwnCandles(j) ==
    IF ftResp[j].kind = "body"
    THEN ParseElems(ftResp[j].elems, toYYYYMMDD(ftDate), EmptyMap).data
    ELSE EmptyMap

\* C34: at most one fetch worker is inside the merge into the shared result,
\* the one that holds writeMutex; when all batches have been joined the result
\* maps every pair that yielded at least one candle to exactly the candles
\* parsed from that pair's own response, and holds no other pair.
C34_MergeUnderMutualExclusion ==
    /\ Cardinality({j \in 1..ftN : ftW[j] = "merging"}) <= 1
    /\ \A j \in 1..ftN : ftW[j] = "merging" <=> ftLock = j
    /\ DOMAIN ftResult \subseteq 1..ftN
    /\ \A j \in DOMAIN ftResult : ftW[j] = "done" /\ ftResult[j] = OwnCandles(j)
    /\ ftMain = "done" =>
          DOMAIN ftResult = {j \in 1..ftN : OwnCandles(j) # EmptyMap}

\* three pairs were fetched: the first got no candle, the other two are in the
\* result
C34_Witness ==
    /\ ftMain = "done" /\ ftN = 3
    /\ ftResp[1].kind = "transport"
    /\ DOMAIN ftResult = {2, 3}

\* C6: no failure inside an ingestion cycle (store open failure, transport
\* failure, malformed body of the ticker snapshot or of a candle response,
\* storage write failure) terminates the process: the scheduling loop is
\* still there to start the next tick.
C6_NoFailureEndsTheProcess == cyAlive

\* C10: every candle row written by a cycle with target date T has date <= T,
\* and when the cycle has stored its data every fetched candle dated at or
\* before T is in the table, whether or not the same response held a candle
\* dated after T.
C10_NoRowAfterTarget ==
    /\ \A k \in cyWritten : k[2] <= toYYYYMMDD(cyDate)
    /\ (cyAlive /\ cyPc = "wait" /\ cyRet = "true") =>
          \A p \in DOMAIN cyResp :
             cyResp[p].kind = "body" =>
                \A i \in 1..Len(cyResp[p].elems) :
                   LET e == cyResp[p].elems[i]
                   IN  e.day <= cyDate =>
                          /\ <<p, toYYYYMMDD(e.day)>> \in DOMAIN dbOhlcv
                          /\ dbOhlcv[<<p, toYYYYMMDD(e.day)>>] = e.val

\* a response held a candle one day past the target: it is not in the table,
\* the pair's candle of the target day is
C10_Witness ==
    /\ cyAlive /\ cyPc = "wait" /\ cyRet = "true"
    /\ \E p \in DOMAIN cyResp :
          /\ \E i \in 1..Len(cyResp[p].elems) : cyResp[p].elems[i].day = cyDate + 1
          /\ <<p, toYYYYMMDD(cyDate)>> \in cyWritten
          /\ <<p, toYYYYMMDD(cyDate + 1)>> \notin DOMAIN dbOhlcv

\* the call has run the named step of downloadData
Ran(step) == \E i \in DOMAIN cyTrace : cyTrace[i] = step

\* the universe snapshot of the call came back empty
EmptySnapshot == cyTop50.asked /\ ~cyTop50.thrown /\ cyTop50.pairs = {}

\* C18: a call whose universe snapshot is empty ends there and returns false:
\* it writes no tracked state, computes no plan, fetches no candle and writes
\* no candle, and the stored tracked state and the candle rows are what they
\* were when the call began.
C18_EmptyUniverseAborts ==
    EmptySnapshot =>
        /\ cyPc = "wait" /\ cyRet = "false"
        /\ ~Ran("plan") /\ ~Ran("fetch") /\ ~Ran("prune") /\ ~Ran("store")
        /\ cyPlan = EmptyMap /\ cyResp = EmptyMap /\ cyWritten = {}
        /\ dbTracked = cyBefore.tracked /\ dbOhlcv = cyBefore.ohlcv

\* a second call, over a store that holds tracked state and candles, met an
\* empty snapshot
C18_Witness ==
    /\ EmptySnapshot /\ cyCount = 2 /\ cyPc = "wait"
    /\ cyBefore.tracked # NoRow /\ cyBefore.ohlcv # EmptyMap

\* the tracked state stored when the call began is non-empty and of the
\* call's target date
StoredCurrent ==
    LET stored == getTrackedPairs(cyBefore.tracked)
    IN  PrevExists(stored) /\ stored.date = cyDate

LastStep == IF cyTrace = <<>> THEN "none" ELSE cyTrace[Len(cyTrace)]

\* C20: a call whose plan is empty fetches no candle, writes no candle and
\* returns true; false is returned only when the store cannot be opened, the
\* universe snapshot is empty or a write to the store fails.
C20_EmptyPlanIsSuccess ==
    /\ (Ran("plan") /\ cyPlan = EmptyMap) =>
          /\ ~Ran("fetch") /\ cyResp = EmptyMap /\ cyWritten = {}
          /\ cyPc = "wait" /\ cyRet = "true"
    /\ (cyPc = "wait" /\ cyRet = "false") => LastStep \in {"open", "refresh", "store"}

\* the steps of downloadData in the order of the claim
StepOrder == <<"open", "load", "refresh", "plan", "fetch", "prune", "store">>

\* the place of a step in StepOrder
StepRank(step) == CHOOSE i \in DOMAIN StepOrder : StepOrder[i] = step

\* the steps a call has run came in the order of StepOrder, none twice
InStepOrder ==
    \A i, j \in DOMAIN cyTrace : i < j => StepRank(cyTrace[i]) < StepRank(cyTrace[j])

\* C32: the steps of a call run in the order open, load, refresh, plan,
\* fetch, prune, store; as long as the fetch and the prune of the call have
\* not both run, tracked_pairs and ohlcv_data are what they were when the
\* call began.
C32_PersistComesLast ==
    /\ InStepOrder
    /\ ~(Ran("fetch") /\ Ran("prune")) =>
          dbTracked = cyBefore.tracked /\ dbOhlcv = cyBefore.ohlcv

(***************************************************************************)
(* Claims on the tick engine                                               *)
(***************************************************************************)
\* C7: stop() wakes the between-tick wait: once stop() has cleared `running`
\* and issued its notification, the loop thread is not left blocked in the
\* wait with the notification missed (no wake-up is lost, the wait does not
\* run on to the tick deadline).
C7_StopWakesTheWait ==
    ~(lpPc = "blocked" /\ ~lpNotified /\ ~running /\ stPc \in {"join", "returned"})

\* C8: in non-blocking mode a stop() issued at any time after startAsync()
\* has returned, also before the worker has begun start(), eventually
\* returns (the worker's loop exited and the thread joined), invocations
\* terminating.
C8_StopReturns ==
    (scMode = "async" /\ stPc = "notify") ~> (stPc = "returned")

\* C21: an exception thrown by processSecond does not reach the scheduling
\* loop: the loop thread is never ended by it, and from the returned wait_for
\* it goes on to the first stop check whether or not the invocation threw.
C21_ThrowStaysInTheFuture ==
    /\ [](lpPc # "terminated")
    /\ [][(lpPc = "waitfor" /\ lpPc' # "waitfor") => lpPc' = "check1"]_vars

\* an invocation threw, the loop passed both stop checks and the wait, and the
\* next invocation is running
C21_Witness == tkPast /\ lpPc = "waitfor" /\ tkState = "running" /\ running /\ ~globalStop

\* C22: in one iteration onTimeout is called at most once, and exactly when
\* the invocation has not completed as wait_for returns; the invocation is not
\* cancelled: once started it stays in progress until it completes.
C22_TimeoutHookOncePerIteration ==
    /\ [](lpTimeouts <= 1)
    /\ [][(lpPc = "waitfor" /\ lpPc' # "waitfor") =>
             /\ (lpTimeouts' = 1) <=> (tkState = "running")
             /\ tkState' = tkState]_vars
    /\ [][tkState = "running" => tkState' \in {"running", "done"}]_vars

\* the hook was called and the invocation completed afterwards
C22_Witness == lpTimeouts = 1 /\ tkState = "done" /\ lpPc = "next"

\* C23: when the next tick's time has arrived and the invocation of this
\* iteration is still running, the loop starts the next invocation anyway
\* (it is not held until the running invocation completes).
C23_NextInvocationStartsAnyway ==
    (lpPc = "next" /\ tkState = "running") => ENABLED LpEndIteration

\* C25: once globalStop is set while the loop is blocked in the between-tick
\* wait, the loop leaves that wait because of the flag and not by reaching
\* the tick deadline.
C25_GlobalStopEndsTheWait ==
    [][(lpPc = "blocked" /\ globalStop /\ lpPc' # "blocked") => lpWake' # "deadline"]_vars

\* C39: the loop does not exit, and in non-blocking mode stop() does not
\* return, while an invocation launched by the loop is running: an iteration
\* ends, by break or not, only when its invocation has completed.
C39_LoopOutlivesItsInvocation ==
    /\ [](lpPc = "exit" => tkState # "running")
    /\ []((scMode = "async" /\ stPc = "returned") => (lpPc = "exit" /\ tkState # "running"))
    /\ [][(lpPc \in {"break", "next"} /\ lpPc' \notin {"break", "next"})
              => tkState = "done"]_vars

\* the invocation of the last iteration was still running when wait_for
\* returned; the loop broke out, and stop() has returned
C39_Witness ==
    /\ scMode = "async" /\ stPc = "returned"
    /\ lpPc = "exit" /\ lpTimeouts = 1

(***************************************************************************)
(* Claims on the configuration publisher                                   *)
(***************************************************************************)
\* C9: consumeNextConfig() is atomic with respect to publication: a pending
\* candidate is always the complete validated snapshot published last and
\* not yet handed out; what a consume hands out is such a snapshot; the slot
\* is empty only when the last publication has been handed out (none is lost
\* between the check and the take); and no publication is handed out twice.
C9_ConsumeIsAtomic ==
    /\ nextConfig # NoConfig =>
          /\ nextConfig.seq = cfPublished
          /\ nextConfig.seq > cfTaken
          /\ nextConfig.val \in ConfigValues
    /\ nextConfig = NoConfig => cfTaken = cfPublished
    /\ csPc = "reset" => csOut = nextConfig
    /\ cfTaken > 0 => csOut.val \in ConfigValues /\ (csPc # "reset" => csOut.seq = cfTaken)
    /\ cfHanded <= cfPublished

\* a publication is ready while the consumer is between its check and its
\* take, after an earlier publication was handed out
C9_Witness ==
    /\ pbPc = "publish" /\ csPc = "copy" /\ mtx = "con"
    /\ cfTaken = 1 /\ nextConfig.seq = 2

\* C27: a periodic check whose candidate fails to load is abandoned there:
\* currentConfig, the pending slot and lastLoadedTime stay as they are,
\* nothing is published and the publisher is ready for the next check; the
\* publisher ends by a load failure only in the constructor, and then no
\* current or pending configuration exists.
C27_FailedReloadIsDiscarded ==
    /\ [][(pbPc = "load" /\ pbPc' # "load" /\ cfFile \notin ConfigValues) =>
             /\ pbPc' = "idle"
             /\ currentConfig' = currentConfig /\ nextConfig' = nextConfig
             /\ lastLoadedTime' = lastLoadedTime /\ cfPublished' = cfPublished]_vars
    /\ [][(pbPc' = "failed") => (pbPc \in {"construct", "failed"})]_vars
    /\ [](pbPc = "failed" =>
             currentConfig = 0 /\ nextConfig = NoConfig /\ cfPublished = 0 /\ csPc = "idle")
    /\ [](nextConfig # NoConfig => nextConfig.val \in ConfigValues)
    /\ [](pbPc \notin {"construct", "failed"} => currentConfig \in ConfigValues)

\* a candidate was discarded, and a later check published a configuration
C27_Witness ==
    /\ cfRejectedAt >= 0 /\ cfPublished > cfRejectedAt
    /\ currentConfig \in ConfigValues /\ nextConfig # NoConfig

\* C28: a check publishes only when the write time it read is strictly later
\* than the one last observed and the candidate loaded and differs from
\* currentConfig; a loaded candidate equal to currentConfig only moves
\* lastLoadedTime, nothing is published.
C28_PublishOnlyWhenModified ==
    /\ [][cfPublished' # cfPublished =>
             /\ WriteTimeOf(pbSctp) > WriteTimeOf(lastLoadedTime)
             /\ pbCandidate \in ConfigValues
             /\ pbCandidate # currentConfig]_vars
    /\ [][(pbPc = "compare" /\ pbPc' # "compare" /\ pbCandidate = currentConfig) =>
             /\ pbPc' = "idle" /\ lastLoadedTime' = pbSctp
             /\ nextConfig' = nextConfig /\ cfPublished' = cfPublished]_vars

\* C29: the pending slot holds nothing after the initial load; when it holds
\* a configuration it is the one published last, so a take returns the most
\* recent publication also when an earlier one was still pending; a take
\* empties the slot, and an empty slot is filled only by a publication.
C29_SinglePendingSlot ==
    /\ []((pbPc # "construct" /\ cfPublished = 0) => nextConfig = NoConfig)
    /\ [](nextConfig # NoConfig => nextConfig.seq = cfPublished)
    /\ [][cfHanded' # cfHanded =>
             /\ nextConfig' = NoConfig
             /\ cfTaken' = cfPublished /\ ctxConfig' = nextConfig.val]_vars
    /\ [][(nextConfig = NoConfig /\ nextConfig' # NoConfig) =>
             cfPublished' = cfPublished + 1]_vars

\* two publications were made before the first take, and that take returned
\* the second
C29_Witness == cfHanded = 1 /\ cfTaken = 2 /\ nextConfig = NoConfig

\* C35: when the file has stopped changing and its last content is the valid
\* configuration c (the handler was constructed and the run is followed to
\* its end, not cut at MaxPublish), the configuration of the orchestrator's
\* context eventually is c and stays c, whatever was written before.
C35_ConfigurationConverges ==
    \A c \in ConfigValues :
        <>[](cfFile = c /\ pbPc # "failed" /\ cfPublished < MaxPublish) => <>[](ctxConfig = c)

(***************************************************************************)
(* Claims on the persistence layer                                         *)
(***************************************************************************)
\* C11: storeDataOHLCV is a last-write-wins upsert: the table holds exactly
\* one row per (pair, date) key ever stored, with the values of the most
\* recent store of that key; storing the same rows again leaves the table
\* as it is; rows of keys the call did not store are unchanged.
C11_UpsertLastWriteWins ==
    /\ \A r1 \in soRows, r2 \in soRows : RowKey(r1) = RowKey(r2) => r1 = r2
    /\ {RowKey(r) : r \in soRows} = soKeys
    /\ \A r \in soRows : r[3] = soLast[RowKey(r)]
    /\ storeDataOHLCV(soRows, soData, soN) = soRows
    /\ \A r \in soBefore : RowKey(r) \notin StoredKeys(soData, soN) => r \in soRows

\* a second store has overwritten one key with another value and has left
\* another key alone
C11_Witness ==
    /\ soCalls = 2
    /\ \E r \in soBefore :
          /\ RowKey(r) \in StoredKeys(soData, soN)
          /\ soData[r[1]][r[2]] # r[3]
          /\ <<r[1], r[2], soData[r[1]][r[2]]>> \in soRows
    /\ \E r \in soBefore : RowKey(r) \notin StoredKeys(soData, soN)

\* C12: after pruneFutureCandles(data, cutoff) no candle has a date after the
\* cutoff and no pair has an empty candle map; every candle dated on or
\* before the cutoff is kept with its values; a second application changes
\* nothing.
C12_PruneKeepsPastDropsFuture ==
    prPc \in {"once", "twice"} =>
       /\ \A p \in DOMAIN prResult :
             /\ DOMAIN prResult[p] # {}
             /\ \A d \in DOMAIN prResult[p] : d <= toYYYYMMDD(prCutoff)
       /\ \A p \in DOMAIN prData : \A d \in DOMAIN prData[p] :
             d <= toYYYYMMDD(prCutoff) =>
                /\ p \in DOMAIN prResult
                /\ d \in DOMAIN prResult[p]
                /\ prResult[p][d] = prData[p][d]
       /\ prPc = "twice" => prResult = pruneFutureCandles(prData, prCutoff)

\* applied twice to data in which one pair had only a future candle and the
\* other a candle of the cutoff day and a future one
C12_Witness ==
    /\ prPc = "twice"
    /\ \E p \in DOMAIN prData : DOMAIN prData[p] = {toYYYYMMDD(prCutoff + 1)}
    /\ \E p \in DOMAIN prData :
          DOMAIN prData[p] = {toYYYYMMDD(prCutoff), toYYYYMMDD(prCutoff + 1)}
    /\ Cardinality(DOMAIN prResult) = 1

\* C14: earliest-date marker: after any sequence of opens date_of_start
\* holds one row, the date of the first open that inserted it (no row as
\* long as no open has inserted one); no later open changes or adds to it.
C14_MarkerWrittenOnce ==
    /\ Cardinality(opRows) <= 1
    /\ opFirst = NoDay => opRows = {}
    /\ opFirst # NoDay => opRows = {opFirst}
    /\ (opOutcome = "ok" /\ opCalls > 0) => Cardinality(opRows) = 1

\* a later open with another date went through without a failure and the
\* row is still the one of the first inserting open
C14_Witness ==
    /\ opCalls >= 2 /\ opOutcome = "ok"
    /\ opFirst # NoDay /\ opDate # opFirst
    /\ opRows = {opFirst}

C31_FailedWriteKeepsPreviousState ==
    [][(tsCalls' = tsCalls + 1 /\ tsOutcome' # "ok") => tsRows' = tsRows]_vars

(***************************************************************************)
(* Claims on the universe snapshot                                         *)
(***************************************************************************)
\* the response cannot be parsed into tickers: not JSON, not an array of
\* tickers, or a ticker whose symbol or (for a USDT pair) quoteVolume is
\* absent, not a string or not a number
Top50ParseFailure(resp) ==
    \/ resp.kind \in {"unparsable", "object"}
    \/ /\ resp.kind = "array"
       /\ \E i \in 1..Len(resp.items) :
             \/ resp.items[i].symbol.kind # "string"
             \/ /\ IsUsdtSymbol(resp.items[i].symbol.val)
                /\ (resp.items[i].quoteVolume.kind # "string" \/ resp.items[i].quoteVolume.val = 0)

\* C17: getTop50PairsByVolume returns an empty set, and does not raise, on
\* every transport failure and on every failure to parse the ticker response.
C17_Top50FailuresGiveEmptySet ==
    (tpDone /\ (tpResp.kind = "transport" \/ Top50ParseFailure(tpResp))) =>
       ~tpThrown /\ tpResult = {}

(***************************************************************************)
(* Orchestrator tick: DatabaseScheduler::processSecond                     *)
(***************************************************************************)
\* clock readings per UTC day
DayLen == 2

\* computeNextMidnightUTC: floor<days>(now) + days{1}
computeNextMidnightUTC(now) == ((now \div DayLen) + 1) * DayLen

\* the values of "database_path" in the configurations
DatabasePaths == {1, 2}

\* seeded fault: downloadData opens the path of the context's configuration
OpenedPath_FromContext(member, inContext) == inContext

\* openDatabaseOHLCV(database_path_, ...): the member set by the constructor
OpenedPath(member, inContext) == member

OrchIdle ==
    /\ dsClock = 0 /\ nextMidnightUTC = 0 /\ firtsIteration = FALSE
    /\ dsInv = <<>> /\ dsLaunched = 0 /\ dsLog = <<>>
    /\ database_path = 0 /\ ctxDatabasePath = 0

\* a constructed DatabaseScheduler: databaseDownloader_(ctx->config.
\* GetDatabasePath()) and nextMidnightUTC_ = computeNextMidnightUTC()
OrchInit ==
    /\ dsClock \in 0..(DayLen - 1)
    /\ nextMidnightUTC = computeNextMidnightUTC(dsClock)
    /\ firtsIteration = TRUE
    /\ dsInv = [k \in 1..MaxTicks |-> "none"]
    /\ dsLaunched = 0 /\ dsLog = <<>>
    /\ ctxDatabasePath \in DatabasePaths
    /\ database_path = ctxDatabasePath

\* time passes
DsAdvance ==
    /\ dsClock < MaxClock
    /\ dsClock' = dsClock + 1
    /\ UNCHANGED <<nextMidnightUTC, firtsIteration, dsInv, dsLaunched, dsLog,
                   database_path, ctxDatabasePath>>

\* Scheduler::start: the next iteration's std::async(processSecond)
DsLaunch ==
    /\ dsLaunched < MaxTicks
    /\ IF dsLaunched = 0 THEN TRUE ELSE FutureReleased(dsInv[dsLaunched])
    /\ dsLaunched' = dsLaunched + 1
    /\ dsInv' = [dsInv EXCEPT ![dsLaunched + 1] = "gate"]
    /\ UNCHANGED <<dsClock, nextMidnightUTC, firtsIteration, dsLog,
                   database_path, ctxDatabasePath>>

\* if (now >= nextMidnightUTC_ || firtsIteration) { firtsIteration = false; ...
DsGate(k) ==
    /\ dsInv[k] = "gate"
    /\ IF dsClock >= nextMidnightUTC \/ firtsIteration
       THEN /\ firtsIteration' = FALSE
            /\ dsInv' = [dsInv EXCEPT ![k] = "cycle"]
            /\ dsLog' = Append(dsLog, [start |-> dsClock, first |-> firtsIteration,
                                       armed |-> nextMidnightUTC, end |-> NoDay, inv |-> k,
                                       path |-> OpenedPath(database_path, ctxDatabasePath),
                                       inContext |-> ctxDatabasePath])
       ELSE /\ dsInv' = [dsInv EXCEPT ![k] = "consume"]
            /\ UNCHANGED <<firtsIteration, dsLog>>
    /\ UNCHANGED <<dsClock, nextMidnightUTC, dsLaunched,
                   database_path, ctxDatabasePath>>

\* downloadData(...) returns true or false, or an exception leaves
\* processSecond through it
DsCycle(k) ==
    /\ dsInv[k] = "cycle"
    /\ \E outcome \in {"true", "false", "exception"} :
          dsInv' = [dsInv EXCEPT ![k] = IF outcome = "exception" THEN "threw" ELSE "rearm"]
    /\ dsLog' = [j \in DOMAIN dsLog |->
                    IF dsLog[j].inv = k THEN [dsLog[j] EXCEPT !.end = dsClock] ELSE dsLog[j]]
    /\ UNCHANGED <<dsClock, nextMidnightUTC, firtsIteration, dsLaunched,
                   database_path, ctxDatabasePath>>

\* nextMidnightUTC_ = computeNextMidnightUTC()
DsRearm(k) ==
    /\ dsInv[k] = "rearm"
    /\ nextMidnightUTC' = computeNextMidnightUTC(dsClock)
    /\ dsInv' = [dsInv EXCEPT ![k] = "consume"]
    /\ UNCHANGED <<dsClock, firtsIteration, dsLaunched, dsLog,
                   database_path, ctxDatabasePath>>

\* if (configHandler_.consumeNextConfig(newConfig)) ctxRef.config =
\* std::move(newConfig); and the end of processSecond
DsConsume(k) ==
    /\ dsInv[k] = "consume"
    /\ dsInv' = [dsInv EXCEPT ![k] = "done"]
    /\ \/ UNCHANGED ctxDatabasePath                                \* nothing pending
       \/ \E newConfig \in DatabasePaths : ctxDatabasePath' = newConfig
    /\ UNCHANGED <<dsClock, nextMidnightUTC, firtsIteration, dsLaunched, dsLog, database_path>>

(***************************************************************************)
(* Claims on the orchestrator tick                                         *)
(***************************************************************************)
\* the invocations that are inside downloadData
InCycle == {k \in 1..MaxTicks : dsInv[k] = "cycle"}

\* C24: at no time are two downloadData calls in progress: a call starts only
\* when every earlier call has ended.
C24_NoTwoCyclesAtOnce ==
    /\ Cardinality(InCycle) <= 1
    /\ \A j \in DOMAIN dsLog : \A i \in 1..(j - 1) :
          dsLog[i].end # NoDay /\ dsLog[i].end <= dsLog[j].start

\* a second call is in progress, after the first has ended
C24_Witness ==
    /\ Len(dsLog) >= 2 /\ InCycle # {}
    /\ dsLog[1].end # NoDay

\* C30: a downloadData call is started by the first tick, and otherwise only
\* by a tick at or past the stored next midnight; after a call, however it
\* ended, no other call starts before the UTC midnight that follows its end.
C30_MidnightGating ==
    /\ \A j \in DOMAIN dsLog :
          \/ dsLog[j].inv = 1 /\ dsLog[j].first
          \/ dsLog[j].start >= dsLog[j].armed
    /\ \A j \in DOMAIN dsLog : \A i \in 1..(j - 1) :
          dsLog[i].end # NoDay => dsLog[j].start >= computeNextMidnightUTC(dsLog[i].end)

\* C36: the path that downloadData opens is the one the DatabaseScheduler was
\* constructed with: the member database_path_ never changes, every call
\* opens it, and adopting a consumed configuration changes the path in the
\* context only.
C36_StorePathFixedAtConstruction ==
    /\ [](\A j \in DOMAIN dsLog : dsLog[j].path = dsLog[1].path)
    /\ [][database_path' = database_path]_vars
    /\ [][ctxDatabasePath' # ctxDatabasePath =>
              \E k \in 1..MaxTicks : dsInv[k] = "consume" /\ dsInv'[k] = "done"]_vars

\* a call was made after the context had adopted a configuration with another
\* path, and opened the path of the first call
C36_Witness ==
    /\ Len(dsLog) >= 2
    /\ dsLog[2].inContext # dsLog[1].inContext
    /\ dsLog[2].path = dsLog[1].path
    /\ dsLog[2].end # NoDay

(***************************************************************************)
(* main: the two schedulers of the process                                 *)
(***************************************************************************)
MainIdle == msPc = "idle" /\ msRunning = FALSE /\ msGlobalStop = FALSE /\ msTask = "none"

\* main has constructed configHandler and databaseScheduler and installed
\* signalHandler; configHandler->startAsync() comes next
MainInit == msPc = "created" /\ msRunning = FALSE /\ msGlobalStop = FALSE /\ msTask = "none"

MsStopRequested == msGlobalStop \/ ~msRunning

\* signalHandler: Scheduler<DatabaseContext>::globalStop.store(true). The
\* flag of configHandler is Scheduler<DatabaseConfig>::globalStop, another
\* static object, which nothing sets.
SignalHandler ==
    /\ ~msGlobalStop
    /\ msGlobalStop' = TRUE
    /\ UNCHANGED <<msPc, msRunning, msTask>>

\* databaseScheduler->start(), after configHandler->startAsync() returned:
\* running = true and the initial delay
MsBegin ==
    /\ msPc = "created" /\ saPc = "returned"
    /\ msRunning' = TRUE
    /\ msPc' = "while"
    /\ UNCHANGED <<msGlobalStop, msTask>>

\* while (running) { auto fut = std::async(...)
MsWhile ==
    /\ msPc = "while"
    /\ IF msRunning
       THEN msPc' = "waitfor" /\ msTask' = "running"
       ELSE msPc' = "exit" /\ UNCHANGED msTask
    /\ UNCHANGED <<msRunning, msGlobalStop>>

\* DatabaseScheduler::processSecond ends
MsFinish ==
    /\ msTask = "running"
    /\ msTask' = "done"
    /\ UNCHANGED <<msPc, msRunning, msGlobalStop>>

\* fut.wait_for(timeout) returns, ready or timeout (onTimeout is the no-op)
MsWaitFor ==
    /\ msPc = "waitfor"
    /\ msPc' = "check1"
    /\ UNCHANGED <<msRunning, msGlobalStop, msTask>>

\* first stop check; nextTick += interval
MsCheck1 ==
    /\ msPc = "check1"
    /\ msPc' = IF MsStopRequested THEN "break" ELSE "pred"
    /\ UNCHANGED <<msRunning, msGlobalStop, msTask>>

\* cv.wait_until: the predicate is read; false: the thread blocks (nothing
\* notifies this scheduler's cv before main returns)
MsPred ==
    /\ msPc = "pred"
    /\ msPc' = IF MsStopRequested THEN "check2" ELSE "blocked"
    /\ UNCHANGED <<msRunning, msGlobalStop, msTask>>

\* cv.wait_until: nextTick is reached
MsDeadline ==
    /\ msPc = "blocked"
    /\ msPc' = "check2"
    /\ UNCHANGED <<msRunning, msGlobalStop, msTask>>

\* second stop check
MsCheck2 ==
    /\ msPc = "check2"
    /\ msPc' = IF MsStopRequested THEN "break" ELSE "next"
    /\ UNCHANGED <<msRunning, msGlobalStop, msTask>>

\* end of the loop body: ~future() waits for processSecond; start() returns
\* after a break
MsEndIteration ==
    /\ msPc \in {"break", "next"} /\ msTask = "done"
    /\ msTask' = "none"
    /\ msPc' = IF msPc = "break" THEN "exit" ELSE "while"
    /\ UNCHANGED <<msRunning, msGlobalStop>>

(***************************************************************************)
(* Claims on main                                                          *)
(***************************************************************************)
\* C26: once the signal handler has set the stop flag, and invocations in
\* progress finishing, databaseScheduler->start() returns, the loop of
\* configHandler exits and its thread is joined, and main returns.
C26_SignalEndsTheProcess ==
    msGlobalStop ~> (msPc = "exit" /\ lpPc = "exit" /\ stPc = "returned")

\* C33: the flag stored by signalHandler is the one both loops read: once it
\* is set, a stop check of databaseScheduler's loop and a stop check of
\* configHandler's loop each break out of the loop, with nothing else done.
C33_OneStopFlagForBothLoops ==
    /\ [][(msGlobalStop /\ msPc \in {"check1", "check2"} /\ msPc' # msPc)
              => msPc' = "break"]_vars
    /\ [][(msGlobalStop /\ lpPc \in {"check1", "check2"} /\ lpPc' # lpPc)
              => lpPc' = "break"]_vars

(***************************************************************************)
(* Specifications                                                          *)
(***************************************************************************)
TrackerFrame == UNCHANGED <<planVars, fetchVars, cycleVars, schedVars, configVars, storeVars
    , pruneVars, openVars, trackedVars, top50Vars, orchVars, mainVars>>
InitTracker == TrackerInit /\ PlanIdle /\ FetchIdle /\ CycleIdle /\ SchedIdle /\ ConfigIdle
    /\ StoreIdle /\ PruneIdle /\ OpenIdle /\ TrackedIdle /\ Top50Idle /\ OrchIdle /\ MainIdle
NextTracker ==
    \/ CallGetNewTrackedPairs /\ TrackerFrame
SpecTracker == InitTracker /\ [][NextTracker]_vars

PlanFrame == UNCHANGED <<trackerVars, fetchVars, cycleVars, schedVars, configVars, storeVars
    , pruneVars, openVars, trackedVars, top50Vars, orchVars, mainVars>>
InitPlan == PlanInit /\ TrackerIdle /\ FetchIdle /\ CycleIdle /\ SchedIdle /\ ConfigIdle
    /\ StoreIdle /\ PruneIdle /\ OpenIdle /\ TrackedIdle /\ Top50Idle /\ OrchIdle /\ MainIdle
NextPlan ==
    \/ CallComputeDays /\ PlanFrame
SpecPlan == InitPlan /\ [][NextPlan]_vars

FetchFrame == UNCHANGED <<trackerVars, planVars, cycleVars, schedVars, configVars, storeVars
    , pruneVars, openVars, trackedVars, top50Vars, orchVars, mainVars>>
InitFetch == FetchInit /\ TrackerIdle /\ PlanIdle /\ CycleIdle /\ SchedIdle /\ ConfigIdle
    /\ StoreIdle /\ PruneIdle /\ OpenIdle /\ TrackedIdle /\ Top50Idle /\ OrchIdle /\ MainIdle
NextFetch ==
    \/ FtSpawn /\ FetchFrame
    \/ FtJoin /\ FetchFrame
    \/ \E j \in 1..ftN : FtRequest(j) /\ FetchFrame
    \/ \E j \in 1..ftN : FtLock(j) /\ FetchFrame
    \/ \E j \in 1..ftN : FtMerge(j) /\ FetchFrame
SpecFetch == InitFetch /\ [][NextFetch]_vars

CycleFrame == UNCHANGED <<trackerVars, planVars, fetchVars, schedVars, configVars, storeVars
    , pruneVars, openVars, trackedVars, top50Vars, orchVars, mainVars>>
InitCycle == CycleInit /\ TrackerIdle /\ PlanIdle /\ FetchIdle /\ SchedIdle /\ ConfigIdle
    /\ StoreIdle /\ PruneIdle /\ OpenIdle /\ TrackedIdle /\ Top50Idle /\ OrchIdle /\ MainIdle
NextCycle ==
    \/ CyTick /\ CycleFrame
    \/ CyOpen /\ CycleFrame
    \/ CyLoad /\ CycleFrame
    \/ CyRefresh /\ CycleFrame
    \/ CyPlan /\ CycleFrame
    \/ CyFetch /\ CycleFrame
    \/ CyPrune /\ CycleFrame
    \/ CyStore /\ CycleFrame
SpecCycle == InitCycle /\ [][NextCycle]_vars

SchedFrame == UNCHANGED <<trackerVars, planVars, fetchVars, cycleVars, configVars, storeVars
    , pruneVars, openVars, trackedVars, top50Vars, orchVars, mainVars>>
InitSched == SchedInit /\ TrackerIdle /\ PlanIdle /\ FetchIdle /\ CycleIdle /\ ConfigIdle
    /\ StoreIdle /\ PruneIdle /\ OpenIdle /\ TrackedIdle /\ Top50Idle /\ OrchIdle /\ MainIdle
\* the thread that executes start()
LoopStep ==
    /\ \/ LpBegin \/ LpWhile \/ LpLaunch \/ LpWaitReady \/ LpWaitTimeout \/ LpCheck1
       \/ LpPred \/ LpBlock \/ LpWoken \/ LpDeadline \/ LpCheck2 \/ LpEndIteration
    /\ SchedFrame
\* the thread of the std::async invocation
TaskStep == TkFinish /\ SchedFrame
\* the thread inside startAsync() or stop(), once it has entered
CallerStep == (SaSpawn \/ StNotify \/ StJoin) /\ SchedFrame
NextSched ==
    \/ SaSetRunning /\ SchedFrame
    \/ SaSpawn /\ SchedFrame
    \/ LpBegin /\ SchedFrame
    \/ LpWhile /\ SchedFrame
    \/ LpLaunch /\ SchedFrame
    \/ TkFinish /\ SchedFrame
    \/ LpWaitReady /\ SchedFrame
    \/ LpWaitTimeout /\ SchedFrame
    \/ LpCheck1 /\ SchedFrame
    \/ LpPred /\ SchedFrame
    \/ LpBlock /\ SchedFrame
    \/ LpWoken /\ SchedFrame
    \/ LpDeadline /\ SchedFrame
    \/ LpCheck2 /\ SchedFrame
    \/ LpEndIteration /\ SchedFrame
    \/ StClear /\ SchedFrame
    \/ StNotify /\ SchedFrame
    \/ StJoin /\ SchedFrame
    \/ SetGlobalStop /\ SchedFrame
SpecSched == InitSched /\ [][NextSched]_vars
\* every thread that can run does run, and time passes; calls of
\* startAsync() and stop() and the signal may or may not happen
SpecSchedFair ==
    SpecSched /\ WF_vars(LoopStep) /\ WF_vars(TaskStep) /\ WF_vars(CallerStep)

ConfigFrame == UNCHANGED <<trackerVars, planVars, fetchVars, cycleVars, schedVars, storeVars
    , pruneVars, openVars, trackedVars, top50Vars, orchVars, mainVars>>
InitConfig == ConfigInit /\ TrackerIdle /\ PlanIdle /\ FetchIdle /\ CycleIdle /\ SchedIdle
    /\ StoreIdle /\ PruneIdle /\ OpenIdle /\ TrackedIdle /\ Top50Idle /\ OrchIdle /\ MainIdle
NextConfig ==
    \/ FileWrite /\ ConfigFrame
    \/ PbConstruct /\ ConfigFrame
    \/ PbCheckTime /\ ConfigFrame
    \/ PbLoad /\ ConfigFrame
    \/ PbCompare /\ ConfigFrame
    \/ PbPublish /\ ConfigFrame
    \/ PbStamp /\ ConfigFrame
    \/ CsEnter /\ ConfigFrame
    \/ CsCheck /\ ConfigFrame
    \/ CsCopy /\ ConfigFrame
    \/ CsReset /\ ConfigFrame
SpecConfig == InitConfig /\ [][NextConfig]_vars
\* ConfigHandler::processSecond, run by configHandler's loop once per interval
PublisherStep ==
    (PbConstruct \/ PbCheckTime \/ PbLoad \/ PbCompare \/ PbPublish \/ PbStamp) /\ ConfigFrame
\* consumeNextConfig, called by DatabaseScheduler::processSecond at every tick
ConsumerStep == (CsEnter \/ CsCheck \/ CsCopy \/ CsReset) /\ ConfigFrame
\* both loops keep ticking and neither thread is kept from the mutex for
\* ever; the file may or may not be rewritten
SpecConfigFair == SpecConfig /\ SF_vars(PublisherStep) /\ SF_vars(ConsumerStep)

StoreFrame == UNCHANGED <<trackerVars, planVars, fetchVars, cycleVars, schedVars, configVars
    , pruneVars, openVars, trackedVars, top50Vars, orchVars, mainVars>>
InitStore == StoreInit /\ TrackerIdle /\ PlanIdle /\ FetchIdle /\ CycleIdle /\ SchedIdle
    /\ ConfigIdle /\ PruneIdle /\ OpenIdle /\ TrackedIdle /\ Top50Idle /\ OrchIdle /\ MainIdle
NextStore ==
    \/ CallStoreDataOHLCV /\ StoreFrame
SpecStore == InitStore /\ [][NextStore]_vars

PruneFrame == UNCHANGED <<trackerVars, planVars, fetchVars, cycleVars, schedVars, configVars
    , storeVars, openVars, trackedVars, top50Vars, orchVars, mainVars>>
InitPrune == PruneInit /\ TrackerIdle /\ PlanIdle /\ FetchIdle /\ CycleIdle /\ SchedIdle
    /\ ConfigIdle /\ StoreIdle /\ OpenIdle /\ TrackedIdle /\ Top50Idle /\ OrchIdle /\ MainIdle
NextPrune ==
    \/ CallPruneFutureCandles /\ PruneFrame
    \/ CallPruneAgain /\ PruneFrame
SpecPrune == InitPrune /\ [][NextPrune]_vars

OpenFrame == UNCHANGED <<trackerVars, planVars, fetchVars, cycleVars, schedVars, configVars
    , storeVars, pruneVars, trackedVars, top50Vars, orchVars, mainVars>>
InitOpen == OpenInit /\ TrackerIdle /\ PlanIdle /\ FetchIdle /\ CycleIdle /\ SchedIdle /\ ConfigIdle
    /\ StoreIdle /\ PruneIdle /\ TrackedIdle /\ Top50Idle /\ OrchIdle /\ MainIdle
NextOpen ==
    \/ CallOpenDatabaseOHLCV /\ OpenFrame
SpecOpen == InitOpen /\ [][NextOpen]_vars

TrackedFrame == UNCHANGED <<trackerVars, planVars, fetchVars, cycleVars, schedVars, configVars
    , storeVars, pruneVars, openVars, top50Vars, orchVars, mainVars>>
InitTracked == TrackedInit /\ TrackerIdle /\ PlanIdle /\ FetchIdle /\ CycleIdle /\ SchedIdle
    /\ ConfigIdle /\ StoreIdle /\ PruneIdle /\ OpenIdle /\ Top50Idle /\ OrchIdle /\ MainIdle
NextTracked ==
    \/ CallStoreTrackedPairs /\ TrackedFrame
    \/ CallGetTrackedPairs /\ TrackedFrame
SpecTracked == InitTracked /\ [][NextTracked]_vars

Top50Frame == UNCHANGED <<trackerVars, planVars, fetchVars, cycleVars, schedVars, configVars
    , storeVars, pruneVars, openVars, trackedVars, orchVars, mainVars>>
InitTop50 == Top50Init /\ TrackerIdle /\ PlanIdle /\ FetchIdle /\ CycleIdle /\ SchedIdle
    /\ ConfigIdle /\ StoreIdle /\ PruneIdle /\ OpenIdle /\ TrackedIdle /\ OrchIdle /\ MainIdle
NextTop50 ==
    \/ CallGetTop50PairsByVolume /\ Top50Frame
SpecTop50 == InitTop50 /\ [][NextTop50]_vars

OrchFrame == UNCHANGED <<trackerVars, planVars, fetchVars, cycleVars, schedVars, configVars
    , storeVars, pruneVars, openVars, trackedVars, top50Vars, mainVars>>
InitOrch == OrchInit /\ TrackerIdle /\ PlanIdle /\ FetchIdle /\ CycleIdle /\ SchedIdle /\ ConfigIdle
    /\ StoreIdle /\ PruneIdle /\ OpenIdle /\ TrackedIdle /\ Top50Idle /\ MainIdle
NextOrch ==
    \/ DsAdvance /\ OrchFrame
    \/ DsLaunch /\ OrchFrame
    \/ \E k \in 1..MaxTicks : DsGate(k) /\ OrchFrame
    \/ \E k \in 1..MaxTicks : DsCycle(k) /\ OrchFrame
    \/ \E k \in 1..MaxTicks : DsRearm(k) /\ OrchFrame
    \/ \E k \in 1..MaxTicks : DsConsume(k) /\ OrchFrame
SpecOrch == InitOrch /\ [][NextOrch]_vars

MainFrame == UNCHANGED <<trackerVars, planVars, fetchVars, cycleVars, schedVars, configVars
    , storeVars, pruneVars, openVars, trackedVars, top50Vars, orchVars>>
InitMain == MainInit /\ SchedInit /\ scMode = "async" /\ TrackerIdle /\ PlanIdle /\ FetchIdle
    /\ CycleIdle /\ ConfigIdle /\ StoreIdle /\ PruneIdle /\ OpenIdle /\ TrackedIdle /\ Top50Idle
    /\ OrchIdle
\* configHandler->stop() comes after databaseScheduler->start() has returned
MainStop == msPc = "exit" /\ StClear
\* the main thread: startAsync(), start(), stop()
MainThreadStep ==
    \/ (SaSetRunning \/ SaSpawn \/ MainStop \/ StNotify \/ StJoin) /\ SchedFrame
    \/ /\ \/ MsBegin \/ MsWhile \/ MsWaitFor \/ MsCheck1 \/ MsPred \/ MsDeadline \/ MsCheck2
          \/ MsEndIteration
       /\ MainFrame
\* the thread of databaseScheduler's std::async invocation
MainTaskStep == MsFinish /\ MainFrame
NextMain ==
    \/ SaSetRunning /\ SchedFrame
    \/ SaSpawn /\ SchedFrame
    \/ LpBegin /\ SchedFrame
    \/ LpWhile /\ SchedFrame
    \/ LpLaunch /\ SchedFrame
    \/ TkFinish /\ SchedFrame
    \/ LpWaitReady /\ SchedFrame
    \/ LpWaitTimeout /\ SchedFrame
    \/ LpCheck1 /\ SchedFrame
    \/ LpPred /\ SchedFrame
    \/ LpBlock /\ SchedFrame
    \/ LpWoken /\ SchedFrame
    \/ LpDeadline /\ SchedFrame
    \/ LpCheck2 /\ SchedFrame
    \/ LpEndIteration /\ SchedFrame
    \/ MainStop /\ SchedFrame
    \/ StNotify /\ SchedFrame
    \/ StJoin /\ SchedFrame
    \/ SignalHandler /\ MainFrame
    \/ MsBegin /\ MainFrame
    \/ MsWhile /\ MainFrame
    \/ MsFinish /\ MainFrame
    \/ MsWaitFor /\ MainFrame
    \/ MsCheck1 /\ MainFrame
    \/ MsPred /\ MainFrame
    \/ MsDeadline /\ MainFrame
    \/ MsCheck2 /\ MainFrame
    \/ MsEndIteration /\ MainFrame
SpecMain == InitMain /\ [][NextMain]_vars
\* every thread that can run does run, time passes and invocations finish;
\* the signal may or may not arrive
SpecMainFair ==
    /\ SpecMain
    /\ WF_vars(MainThreadStep) /\ WF_vars(MainTaskStep)
    /\ WF_vars(LoopStep) /\ WF_vars(TaskStep)

====
